---- MODULE Spec2Model ----
(***************************************************************************)
(* rrcm: deployment of dotfiles by symbolic links.                         *)
(*                                                                         *)
(* The model covers the reconciler of src/src/subcommand.rs (deploy,       *)
(* undeploy, status, update), the classifier of src/src/deploy_status.rs   *)
(* and the filesystem helpers of src/src/fs.rs, on the Unix build.         *)
(*                                                                         *)
(* A path is a record [abs, comps]: whether it starts at the root and its  *)
(* components, "." and ".." included.  The destination directories are     *)
(* named "H" and "C"; a destination path is a pair <<directory, name>>.    *)
(***************************************************************************)
EXTENDS Integers, Sequences, FiniteSets, TLC

VARIABLES
    cfg,       \* the loaded AppConfig and the command-line switches of the session
    src,       \* the dotfiles tree: per repository, whether cloned and what it holds
    dst,       \* the destination directories: destination path -> node
    pc,        \* position of the running subcommand
    cmd,       \* the running subcommand and its arguments
    queue,     \* repositories selected and not yet visited
    cur,       \* repository being processed
    plan,      \* the classified entries of cur, in enumeration order
    idx,       \* index in plan of the next entry to act on
    errors,    \* errors logged in this run (log::error!), in order
    reported,  \* lines printed by print_deploy_status in this run, in order
    attempts,  \* per repository, how often this run entered its closure
    syncs,     \* git invocations of this run, in order
    result,    \* what the subcommand returned to main: "ok", "err", "panic"
    dst0,      \* dst when the run started
    seen,      \* dst when plan was classified
    faulted,   \* whether a filesystem call failed for an outside reason in this run
    faults,    \* number of outside failures so far
    limits,    \* how many runs and outside failures this session may see
    hist,      \* summaries of the finished runs, oldest first
    env,       \* the environment variables of the process
    calls      \* calls of OsPath::to_pathbuf so far, each with what it returned

vars == <<cfg, src, dst, pc, cmd, queue, cur, plan, idx, errors, reported,
          attempts, syncs, result, dst0, seen, faulted, faults, limits, hist,
          env, calls>>

(***************************************************************************)
(* Bounds                                                                  *)
(***************************************************************************)
MaxRuns == 3      \* subcommand invocations in one behaviour of a session
MaxFaults == 1    \* outside failures of filesystem calls in one behaviour
MaxProbes == 2    \* calls of the classifier in one behaviour of SpecClassify
MaxLen == 6       \* characters in a path template of SpecExpand
MaxCalls == 2     \* calls of OsPath::to_pathbuf in one behaviour of SpecExpand

(***************************************************************************)
(* Paths                                                                   *)
(***************************************************************************)
Path(abs, comps) == [abs |-> abs, comps |-> comps]
NoPath == Path(FALSE, <<>>)

\* Path::join of one relative component
Join(p, c) == [p EXCEPT !.comps = Append(@, c)]

\* the working directory of the process: /w
Cwd == <<"w">>

RECURSIVE Resolve(_, _)
\* lexical resolution of "." and "..": acc is the resolved prefix; the result
\* is <<"!">> when ".." would climb above the root
Resolve(comps, acc) ==
    IF comps = <<>> THEN acc
    ELSE LET c == Head(comps) IN
         IF c = "." THEN Resolve(Tail(comps), acc)
         ELSE IF c = ".."
              THEN IF acc = <<>> THEN <<"!">>
                   ELSE Resolve(Tail(comps), SubSeq(acc, 1, Len(acc) - 1))
              ELSE Resolve(Tail(comps), Append(acc, c))

\* fs::absolutize: PathAbs::new makes the path absolute against the working
\* directory and resolves "." and ".." without touching the filesystem
absolutize(p) ==
    LET r == Resolve(IF p.abs THEN p.comps ELSE Cwd \o p.comps, <<>>) IN
    IF r = <<"!">> THEN [ok |-> FALSE, path |-> NoPath]
    ELSE [ok |-> TRUE, path |-> Path(TRUE, r)]

(***************************************************************************)
(* Path expansion (src/src/path/unix.rs) and OsPath (src/src/config.rs)    *)
(*                                                                         *)
(* A string is a sequence of characters.  The variable names are one       *)
(* character long: "H" stands for HOME, "X", "D", "C" and "S" for          *)
(* XDG_CONFIG_HOME, XDG_DATA_HOME, XDG_CACHE_HOME and XDG_STATE_HOME, and  *)
(* "R" for XDG_RUNTIME_DIR; every other name is a variable that is not     *)
(* set.  An environment e is the environment of the process: its           *)
(* variables and, in e.os, the platform the program was built for.         *)
(***************************************************************************)
\* Option<String>
None == [some |-> FALSE, s |-> <<>>]
Some(s) == [some |-> TRUE, s |-> s]

\* the characters of the templates
Chars == {"$", "{", "}", "H", "X"}

\* the home directory in the password database, and values of HOME and
\* XDG_CONFIG_HOME: /h, /x and the relative x
PasswdHome == <<"/", "p">>
HomeValue == <<"/", "h">>
XdgValue == <<"/", "x">>
XdgRelative == <<"x">>
\* a value of XDG_RUNTIME_DIR
RuntimeValue == <<"/", "r">>
\* values of HOME that hold a reference and a reference that nothing ends
HomeReference == <<"$", "{", "H", "}">>
HomeOpen == <<"/", "$", "{">>

\* the platforms the program is built for
Platforms == {"linux", "macos", "windows"}

\* the environment of a session of the reconciler
SessionEnv == [os |-> "linux", H |-> Some(HomeValue), X |-> None, R |-> None]

\* the environments of the process on Linux
Envs ==
    [os : {"linux"}, H : {None, Some(HomeValue)},
     X : {None, Some(XdgValue), Some(XdgRelative)}, R : {None}]
    \cup {[SessionEnv EXCEPT !.R = Some(RuntimeValue)],
          [SessionEnv EXCEPT !.H = Some(HomeReference)],
          [SessionEnv EXCEPT !.H = Some(HomeOpen)]}

\* a variable that is not set reads as the empty string
EnvVarOrEmpty(e, name) ==
    IF name = <<"H">> /\ e.H.some THEN e.H
    ELSE IF name = <<"X">> /\ e.X.some THEN e.X
    ELSE IF name = <<"R">> /\ e.R.some THEN e.R
    ELSE Some(<<>>)

\* std::env::var
EnvVar(e, name) ==
    IF name = <<"H">> THEN e.H
    ELSE IF name = <<"X">> THEN e.X
    ELSE IF name = <<"R">> THEN e.R
    ELSE None

\* Path::is_absolute
is_absolute(s) == s # <<>> /\ Head(s) = "/"

\* dirs::home_dir: HOME when set and not empty, else the password database
home_dir(e) == IF e.H.some /\ e.H.s # <<>> THEN e.H.s ELSE PasswdHome

\* dirs::config_dir: on Linux XDG_CONFIG_HOME when set to an absolute path,
\* else <home>/.config (written /c); on macOS <home>/Library/Application
\* Support (written /L)
config_dir(e) ==
    IF e.os = "macos" THEN home_dir(e) \o <<"/", "L">>
    ELSE IF e.X.some /\ is_absolute(e.X.s) THEN e.X.s ELSE home_dir(e) \o <<"/", "c">>

\* dirs::data_dir and dirs::cache_dir, whose variables no environment of
\* the model sets: <home>/.local/share (/d) and <home>/.cache (/k) on Linux,
\* <home>/Library/Application Support and <home>/Library/Caches (/K) on macOS
data_dir(e) == home_dir(e) \o (IF e.os = "macos" THEN <<"/", "L">> ELSE <<"/", "d">>)
cache_dir(e) == home_dir(e) \o (IF e.os = "macos" THEN <<"/", "K">> ELSE <<"/", "k">>)

\* dirs::state_dir: <home>/.local/state (/s) on Linux, None on macOS
state_dir(e) == IF e.os = "macos" THEN None ELSE Some(home_dir(e) \o <<"/", "s">>)

\* get_xdg_default up to the unwrap of what dirs returned: None makes the
\* unwrap panic
get_xdg_default(name, e) ==
    IF name = <<"X">> THEN Some(config_dir(e))
    ELSE IF name = <<"D">> THEN Some(data_dir(e))
    ELSE IF name = <<"C">> THEN Some(cache_dir(e))
    ELSE state_dir(e)

\* is_xdg_base_directory
is_xdgNever(name) == FALSE
is_xdgWithRuntime(name) == name \in {<<"X">>, <<"D">>, <<"C">>, <<"S">>, <<"R">>}
is_xdg_base_directory(name) == name \in {<<"X">>, <<"D">>, <<"C">>, <<"S">>}

\* Result<String>
OkString(v) == [ok |-> TRUE, value |-> v, err |-> "", name |-> <<>>]
Bail(err, name) == [ok |-> FALSE, value |-> <<>>, err |-> err, name |-> name]
\* no Result at all: an unwrap panicked
Panicked == [ok |-> FALSE, value |-> <<>>, err |-> "panic", name |-> <<>>]

\* result.push_str(&value)
push_strPlain(built, v) == built \o SelectSeq(v, LAMBDA c : c \notin {"$", "{", "}", "%"})
push_str(built, v) == built \o v

\* the inner loop over chars.by_ref(): the position of the first "}" in s,
\* 0 when the characters run out first (is_end stays false)
CloseAtEnd(s) ==
    IF \E i \in 1..Len(s) : s[i] = "}"
    THEN CHOOSE i \in 1..Len(s) : s[i] = "}" /\ \A j \in 1..(i - 1) : s[j] # "}"
    ELSE Len(s) + 1
CloseAt(s) ==
    IF \E i \in 1..Len(s) : s[i] = "}"
    THEN CHOOSE i \in 1..Len(s) : s[i] = "}" /\ \A j \in 1..(i - 1) : s[j] # "}"
    ELSE 0

RECURSIVE expand_from(_, _, _)
\* the while loop of expand_env_var: chars is what the iterator still holds,
\* built the result string so far
expand_from(chars, built, e) ==
    IF chars = <<>> THEN OkString(built)
    ELSE LET c == Head(chars) IN
         IF c # "$" THEN expand_from(Tail(chars), Append(built, c), e)
         ELSE IF Len(chars) = 1 THEN OkString(Append(built, "$"))
         ELSE LET c2 == chars[2]
                  rest == SubSeq(chars, 3, Len(chars))
              IN IF c2 # "{" THEN expand_from(rest, built \o <<"$", c2>>, e)
                 ELSE LET k == CloseAt(rest)
                          varname == SubSeq(rest, 1, IF k = 0 THEN Len(rest) ELSE k - 1)
                          after == SubSeq(rest, k + 1, Len(rest))
                      IN IF k = 0 THEN Bail("invalid env var name", varname)
                         ELSE IF varname = <<>> THEN Bail("variable name is empty", <<>>)
                         ELSE IF is_xdg_base_directory(varname)
                         THEN IF ~get_xdg_default(varname, e).some THEN Panicked
                              ELSE expand_from(after,
                                       push_str(built, get_xdg_default(varname, e).s), e)
                         ELSE IF ~EnvVar(e, varname).some
                         THEN Bail("env var not found", varname)
                         ELSE expand_from(after, push_str(built, EnvVar(e, varname).s), e)

\* expand_env_var(s) in the environment e
expand_env_var(s, e) == expand_from(s, <<>>, e)

\* OsPath
OsPath(windows, mac, linux) == [windows |-> windows, mac |-> mac, linux |-> linux]

(***************************************************************************)
(* Path expansion on Windows (src/src/path/windows.rs): references are     *)
(* written %NAME%; "H" stands for USERPROFILE and "F" for FOLDERID_Desktop,*)
(* the known folder the model covers                                       *)
(***************************************************************************)
\* the characters of the Windows templates
WinChars == {"%", "H", "F"}

\* the desktop directory
DesktopValue == <<"C", ":", "F">>
\* values of USERPROFILE: a directory, and a text that holds a reference
ProfileValue == <<"C", ":", "U">>
ProfileReference == <<"%", "H", "%">>

\* is_known_folder_id
is_known_folder_id(name) == name = <<"F">>

\* get_known_folder: dirs::desktop_dir().unwrap()
get_known_folder(name, e) == Some(DesktopValue)

\* the inner while loop: the position of the next "%" in s, 0 when the
\* characters run out first
NextPercent(s) ==
    IF \E i \in 1..Len(s) : s[i] = "%"
    THEN CHOOSE i \in 1..Len(s) : s[i] = "%" /\ \A j \in 1..(i - 1) : s[j] # "%"
    ELSE 0

RECURSIVE expand_from_windows(_, _, _, _)
\* the while loop of expand_env_var on Windows: chars is what the iterator
\* still holds, built the result string so far, s the whole template
expand_from_windows(chars, built, e, s) ==
    IF chars = <<>> THEN OkString(built)
    ELSE LET c == Head(chars) IN
         IF c # "%" THEN expand_from_windows(Tail(chars), Append(built, c), e, s)
         ELSE LET rest == Tail(chars)
                  k == NextPercent(rest)
                  varname == SubSeq(rest, 1, IF k = 0 THEN Len(rest) ELSE k - 1)
                  after == SubSeq(rest, k + 1, Len(rest))
              IN IF k = 0 THEN Bail("invalid environment variable", s)
                 ELSE IF varname = <<>> THEN Bail("invalid environment variable", s)
                 ELSE IF is_known_folder_id(varname)
                 THEN IF ~get_known_folder(varname, e).some THEN Panicked
                      ELSE expand_from_windows(after,
                               push_str(built, get_known_folder(varname, e).s), e, s)
                 ELSE IF ~EnvVar(e, varname).some
                 THEN Bail("env var not found", varname)
                 ELSE expand_from_windows(after, push_str(built, EnvVar(e, varname).s), e, s)

\* the same with a "%" that ends the template copied
expand_env_var_windowsLenient(s, e) ==
    IF s # <<>> /\ s[Len(s)] = "%" /\ NextPercent(SubSeq(s, 1, Len(s) - 1)) = 0
    THEN OkString(s)
    ELSE expand_from_windows(s, <<>>, e, s)

\* expand_env_var(s) of the Windows build in the environment e
expand_env_var_windows(s, e) == expand_from_windows(s, <<>>, e, s)

\* OsPath::to_pathbuf in the environment e: the cfg attributes leave only
\* the block of the platform the program is built for
OsPath_to_pathbuf(p, e) ==
    IF e.os = "windows"
    THEN IF ~p.windows.some THEN Bail("Windows Path not defined.", <<>>)
         ELSE expand_env_var_windows(p.windows.s, e)
    ELSE IF e.os = "macos"
    THEN IF ~p.mac.some THEN Bail("Mac Path not defined.", <<>>)
         ELSE expand_env_var(p.mac.s, e)
    ELSE IF ~p.linux.some THEN Bail("Linux Path not defined.", <<>>)
         ELSE expand_env_var(p.linux.s, e)

(***************************************************************************)
(* Configuration                                                           *)
(***************************************************************************)
\* AppConfig.repos in configuration order
Repos == <<"r1", "r2">>
RepoSet == {Repos[i] : i \in 1..Len(Repos)}

Dirs == {"home", "config"}
DestDirs == {"H", "C"}
Names == {"a", "b", "c"}
DestPaths == DestDirs \X Names

\* the forms in which the configured dotfiles root may resolve: /d, the
\* same directory written relative to the working directory, or not at all
RootAbs == Path(TRUE, <<"d">>)
RootRel == Path(FALSE, <<"..", "d">>)
RootChoices == {RootAbs, RootRel, NoPath}

\* Repository.deploy: (dirname, destination) in configuration order; the
\* destination "?" is an OsPath that does not resolve on this OS
DeployOf(r, cfgDest) ==
    IF r = "r1" THEN << [dir |-> "home", dest |-> "H"],
                        [dir |-> "config", dest |-> cfgDest] >>
    ELSE << [dir |-> "home", dest |-> "H"],
            [dir |-> "config", dest |-> "C"] >>

\* AppConfig::to_pathbuf / OsPath::to_pathbuf of the dotfiles root
to_pathbuf == IF cfg.root = NoPath THEN [ok |-> FALSE, path |-> NoPath]
              ELSE [ok |-> TRUE, path |-> cfg.root]

(***************************************************************************)
(* The dotfiles tree                                                       *)
(***************************************************************************)
SrcEntry(dir, name, kind) == [dir |-> dir, name |-> name, kind |-> kind]

AbsentRepo == [exists |-> FALSE, dirs |-> {}, entries |-> {}]

\* what the synchronizer leaves at <dotfiles-root>/<repository-name>
Upstream(r) ==
    IF r = "r1"
    THEN [exists |-> TRUE, dirs |-> {"home", "config"},
          entries |-> {SrcEntry("home", "a", "file"), SrcEntry("home", "b", "file"),
                       SrcEntry("config", "a", "file")}]
    ELSE [exists |-> TRUE, dirs |-> {"home"},
          entries |-> {SrcEntry("home", "c", "file")}]

\* the same tree with home/b a symlink whose target is missing
UpstreamDangling(r) ==
    IF r = "r1"
    THEN [Upstream(r) EXCEPT !.entries =
            (@ \ {SrcEntry("home", "b", "file")}) \cup {SrcEntry("home", "b", "dangling")}]
    ELSE Upstream(r)

\* Path::exists of a source path: follows symlinks, so a dangling one is absent
SrcExists(p) ==
    LET a == absolutize(p) IN
    /\ a.ok
    /\ Len(a.path.comps) = 4
    /\ a.path.comps[1] = "d"
    /\ a.path.comps[2] \in RepoSet
    /\ SrcEntry(a.path.comps[3], a.path.comps[4], "file") \in src[a.path.comps[2]].entries

(***************************************************************************)
(* The destination directories                                             *)
(***************************************************************************)
Node(kind, target) == [kind |-> kind, target |-> target]
Absent == Node("absent", NoPath)
File == Node("file", NoPath)
Dir == Node("dir", NoPath)
Link(target) == Node("symlink", target)

\* a symlink target outside the dotfiles tree
Elsewhere == Path(TRUE, <<"x", "f">>)
\* the absolute path of the source entry r1/home/a
SourceA == Path(TRUE, <<"d", "r1", "home", "a">>)


(***************************************************************************)
(* Filesystem helpers (src/src/fs.rs), Unix build                          *)
(***************************************************************************)
\* outcomes of a filesystem call that do not depend on the modelled state:
\* "none" is the ordinary outcome; the others are failures from outside
\* (permissions, a trash that cannot be used, a directory that cannot be read)
FaultKinds == {"trash_fs", "trash_other", "symlink_io", "enum_io"}

\* a link that stores the directory of `from`
LinkTargetParent(from) == [from EXCEPT !.comps = SubSeq(@, 1, Len(@) - 1)]

\* the path a symlink created for `from` stores
LinkTarget(from) == from

\* fs::symlink(from, to): std::os::unix::fs::symlink; fails when `to` exists
symlink(d, from, to, f) ==
    IF f = "symlink_io" \/ d[to].kind # "absent"
    THEN [ok |-> FALSE, dst |-> d]
    ELSE [ok |-> TRUE, dst |-> [d EXCEPT ![to] = Link(LinkTarget(from))]]

\* fs::remove(path): trash::delete first; on Error::FileSystem the fallback
\* fs::remove_file, which removes a file or a symlink and fails on a directory
remove(d, to, f) ==
    IF d[to].kind = "absent" \/ f = "trash_other"
    THEN [ok |-> FALSE, dst |-> d]
    ELSE IF f = "trash_fs" /\ d[to].kind = "dir"
         THEN [ok |-> FALSE, dst |-> d]
         ELSE [ok |-> TRUE, dst |-> [d EXCEPT ![to] = Absent]]

(***************************************************************************)
(* Deploy status classifier (src/src/deploy_status.rs)                     *)
(***************************************************************************)
Status(tag, text, path) == [tag |-> tag, cause |-> [text |-> text, path |-> path]]
UnDeployed == Status("UnDeployed", "", NoPath)
Deployed == Status("Deployed", "", NoPath)
UnManaged == Status("UnManaged", "", NoPath)
Conflict(text, path) == Status("Conflict", text, path)
\* read_link(to).unwrap() or absolutize(..).unwrap() failed: the process aborts
Panic == Status("Panic", "", NoPath)

\* PartialEq for DeployStatus: matches! on the pair of variants
eqDerived(a, b) == a = b
eq(a, b) ==
    \/ a.tag = "UnDeployed" /\ b.tag = "UnDeployed"
    \/ a.tag = "Deployed" /\ b.tag = "Deployed"
    \/ a.tag = "UnManaged" /\ b.tag = "UnManaged"
    \/ a.tag = "Conflict" /\ b.tag = "Conflict"

\* Hash for DeployStatus: the integer each variant feeds to the hasher
hash(a) ==
    CASE a.tag = "UnDeployed" -> 0
      [] a.tag = "Deployed" -> 1
      [] a.tag = "UnManaged" -> 2
      [] a.tag = "Conflict" -> 3

\* the comparison of get_status: absolutized source against absolutized link
LinkMatchesRaw(from, link) == from = link
LinkMatches(from, link) == absolutize(from).path = absolutize(link).path

\* Path::exists of a destination: follows a symlink to its target
Exists(d, to) ==
    \/ d[to].kind \in {"file", "dir"}
    \/ /\ d[to].kind = "symlink"
       /\ \/ SrcExists(d[to].target)
          \/ d[to].target = Elsewhere

\* a classifier that looks at `to` before it looks at `from`
get_statusToFirst(d, from, to) ==
    IF d[to].kind \in {"file", "dir"} THEN Conflict("Other file exists.", NoPath)
    ELSE IF ~SrcExists(from) THEN UnManaged
    ELSE IF d[to].kind = "absent" THEN UnDeployed
    ELSE IF ~absolutize(d[to].target).ok \/ ~absolutize(from).ok THEN Panic
    ELSE IF absolutize(from).path # absolutize(d[to].target).path
         THEN Conflict("Symlink to different path.", absolutize(d[to].target).path)
         ELSE Deployed

\* a classifier that probes `to` with exists(), which follows symlinks, first
get_statusFollowsLinks(d, from, to) ==
    IF ~SrcExists(from) THEN UnManaged
    ELSE IF ~Exists(d, to) THEN UnDeployed
    ELSE IF d[to].kind # "symlink" THEN Conflict("Other file exists.", NoPath)
    ELSE IF ~absolutize(d[to].target).ok \/ ~absolutize(from).ok THEN Panic
    ELSE IF absolutize(from).path # absolutize(d[to].target).path
         THEN Conflict("Symlink to different path.", absolutize(d[to].target).path)
         ELSE Deployed

\* a classifier that asks whether `to` exists before asking whether it is a symlink
get_statusExistsFirst(d, from, to) ==
    IF ~SrcExists(from) THEN UnManaged
    ELSE IF d[to].kind # "absent"
         THEN Conflict("Other file exists.", NoPath)
         ELSE UnDeployed

get_status(d, from, to) ==
    IF ~SrcExists(from) THEN UnManaged
    ELSE IF d[to].kind # "symlink"
         THEN IF d[to].kind \in {"file", "dir"}
              THEN Conflict("Other file exists.", NoPath)
              ELSE UnDeployed
         ELSE IF ~absolutize(d[to].target).ok \/ ~absolutize(from).ok
              THEN Panic
              ELSE IF ~LinkMatches(from, d[to].target)
                   THEN Conflict("Symlink to different path.",
                                 absolutize(d[to].target).path)
                   ELSE Deployed

(***************************************************************************)
(* Deploy target resolution and enumeration (src/src/subcommand.rs)        *)
(***************************************************************************)
\* collect into one Result instead: nothing when any element is an Err
SeqAllOrNothing(s) == IF \E i \in 1..Len(s) : ~s[i].ok THEN <<>> ELSE s

RECURSIVE SeqFilterOk(_)
\* filter_map(Result::ok)
SeqFilterOk(s) ==
    IF s = <<>> THEN <<>>
    ELSE IF Head(s).ok THEN <<Head(s)>> \o SeqFilterOk(Tail(s))
         ELSE SeqFilterOk(Tail(s))

\* the same results with repo.deploy iterated from its last entry to its first
create_deploy_pathReversed(path, r) ==
    LET dep == DeployOf(r, cfg.cfgDest)
        one(m) == [ok |-> m.dir \in src[r].dirs /\ m.dest # "?",
                   from_path |-> Join(Join(path, r), m.dir),
                   dir |-> m.dir,
                   to_path |-> m.dest]
    IN [i \in 1..Len(dep) |-> one(dep[Len(dep) + 1 - i])]

\* create_deploy_path(path, repo): one Result per entry of repo.deploy; Err
\* when the source directory cannot be read or the destination does not resolve
create_deploy_path(path, r) ==
    LET dep == DeployOf(r, cfg.cfgDest)
        one(m) == [ok |-> m.dir \in src[r].dirs /\ m.dest # "?",
                   from_path |-> Join(Join(path, r), m.dir),
                   dir |-> m.dir,
                   to_path |-> m.dest]
    IN [i \in 1..Len(dep) |-> one(dep[i])]

\* the permutations of a finite set, as sequences
Perms(S) == {s \in [1..Cardinality(S) -> S] : \A i, j \in 1..Cardinality(S) : s[i] = s[j] => i = j}

RECURSIVE SeqRestrict(_, _)
\* the elements of the sequence s that are in the set S, in the order of s
SeqRestrict(s, S) ==
    IF s = <<>> THEN <<>>
    ELSE IF Head(s) \in S THEN <<Head(s)>> \o SeqRestrict(Tail(s), S)
         ELSE SeqRestrict(Tail(s), S)

\* an enumeration that yields every name a destination directory may hold
ReadDirAll(r, dir) == Names

\* the names read_dir finds in <repo>/<dir>
ReadDir(r, dir) == {e.name : e \in {x \in src[r].entries : x.dir = dir}}

RECURSIVE create_deploy_status(_, _, _)
\* create_deploy_status: flat_map over the deploy paths in order; within one
\* directory the entries come in the order of read_dir, here the order `ord`
create_deploy_status(r, paths, ord) ==
    IF paths = <<>> THEN <<>>
    ELSE LET p == Head(paths)
             names == SeqRestrict(ord, ReadDir(r, p.dir))
             one(n) == LET from == Join(p.from_path, n)
                           to == <<p.to_path, n>>
                       IN [status |-> get_status(dst, from, to), from |-> from, to |-> to]
         IN [i \in 1..Len(names) |-> one(names[i])] \o create_deploy_status(r, Tail(paths), ord)


(***************************************************************************)
(* The match arms of deploy_impl and undeploy_impl                         *)
(***************************************************************************)
Err(ctx, e) == [ctx |-> ctx, from |-> e.from, to |-> e.to, cause |-> e.status.cause]
NoErr == [ctx |-> "", from |-> NoPath, to |-> <<"", "">>, cause |-> UnDeployed.cause]
Line(tag, e) == [tag |-> tag, from |-> e.from, to |-> e.to, cause |-> e.status.cause]

\* `if force` of the Conflict arm
ForceAlways(force) == TRUE
ReplaceOnConflict(force) == force

\* the Conflict arm with force: fs::remove, then fs::symlink
OnlyRemove(d, e, f) ==
    LET rm == remove(d, e.to, f) IN
    [ok |-> rm.ok, dst |-> rm.dst,
     err |-> IF rm.ok THEN NoErr ELSE Err("Failed to remove file", e),
     printed |-> rm.ok]
\* a replacement that puts the removed entry back when the link cannot be made
ForcedReplaceRestores(d, e, f) ==
    LET rm == remove(d, e.to, f) IN
    IF ~rm.ok
    THEN [ok |-> FALSE, dst |-> rm.dst, err |-> Err("Failed to remove file", e),
          printed |-> FALSE]
    ELSE LET ln == symlink(rm.dst, e.from, e.to, f) IN
         [ok |-> ln.ok, dst |-> IF ln.ok THEN ln.dst ELSE d,
          err |-> IF ln.ok THEN NoErr ELSE Err("Failed to create symlink", e),
          printed |-> ln.ok]
ForcedReplace(d, e, f) ==
    LET rm == remove(d, e.to, f) IN
    IF ~rm.ok
    THEN [ok |-> FALSE, dst |-> rm.dst, err |-> Err("Failed to remove file", e),
          printed |-> FALSE]
    ELSE LET ln == symlink(rm.dst, e.from, e.to, f) IN
         [ok |-> ln.ok, dst |-> ln.dst,
          err |-> IF ln.ok THEN NoErr ELSE Err("Failed to create symlink", e),
          printed |-> ln.ok]

\* the same closure choosing its arm from the status `to` has when the
\* entry is acted on
DeployEntryReclassify(d, e, force, f) ==
    LET now == [e EXCEPT !.status = get_status(d, e.from, e.to)] IN
    IF now.status.tag = "UnDeployed"
    THEN LET ln == symlink(d, e.from, e.to, f) IN
         [ok |-> ln.ok, dst |-> ln.dst,
          err |-> IF ln.ok THEN NoErr ELSE Err("Failed to create symlink", now),
          printed |-> ln.ok]
    ELSE IF now.status.tag = "Deployed"
    THEN [ok |-> TRUE, dst |-> d, err |-> NoErr, printed |-> FALSE]
    ELSE IF now.status.tag = "Conflict"
    THEN IF ReplaceOnConflict(force)
         THEN ForcedReplace(d, now, f)
         ELSE [ok |-> FALSE, dst |-> d, err |-> Err("Failed to deploy", now),
               printed |-> FALSE]
    ELSE [ok |-> FALSE, dst |-> d, err |-> Err("File not exists", now), printed |-> FALSE]

\* the closure of deploy_impl applied to one classified entry
DeployEntry(d, e, force, f) ==
    IF e.status.tag = "UnDeployed"
    THEN LET ln == symlink(d, e.from, e.to, f) IN
         [ok |-> ln.ok, dst |-> ln.dst,
          err |-> IF ln.ok THEN NoErr ELSE Err("Failed to create symlink", e),
          printed |-> ln.ok]
    ELSE IF e.status.tag = "Deployed"
    THEN [ok |-> TRUE, dst |-> d, err |-> NoErr, printed |-> FALSE]
    ELSE IF e.status.tag = "Conflict"
    THEN IF ReplaceOnConflict(force)
         THEN ForcedReplace(d, e, f)
         ELSE [ok |-> FALSE, dst |-> d, err |-> Err("Failed to deploy", e),
               printed |-> FALSE]
    ELSE [ok |-> FALSE, dst |-> d, err |-> Err("File not exists", e), printed |-> FALSE]

\* the closure of undeploy_impl applied to one classified entry
UndeployRemovesConflict(d, e, f) ==
    IF e.status.tag \in {"Deployed", "Conflict"}
    THEN LET rm == remove(d, e.to, f) IN
         [ok |-> rm.ok, dst |-> rm.dst,
          err |-> IF rm.ok THEN NoErr ELSE Err("Failed to remove file", e),
          printed |-> rm.ok]
    ELSE IF e.status.tag = "UnManaged"
    THEN [ok |-> FALSE, dst |-> d, err |-> Err("File not exists", e), printed |-> FALSE]
    ELSE [ok |-> TRUE, dst |-> d, err |-> NoErr, printed |-> FALSE]
UndeployIgnoresUnManaged(d, e, f) ==
    IF e.status.tag = "Deployed"
    THEN LET rm == remove(d, e.to, f) IN
         [ok |-> rm.ok, dst |-> rm.dst,
          err |-> IF rm.ok THEN NoErr ELSE Err("Failed to remove file", e),
          printed |-> rm.ok]
    ELSE [ok |-> TRUE, dst |-> d, err |-> NoErr, printed |-> FALSE]
UndeployKeepsLink(d, e, f) ==
    IF e.status.tag = "UnManaged"
    THEN [ok |-> FALSE, dst |-> d, err |-> Err("File not exists", e), printed |-> FALSE]
    ELSE [ok |-> TRUE, dst |-> d, err |-> NoErr, printed |-> e.status.tag = "Deployed"]
UndeployEntry(d, e, f) ==
    IF e.status.tag = "Deployed"
    THEN LET rm == remove(d, e.to, f) IN
         [ok |-> rm.ok, dst |-> rm.dst,
          err |-> IF rm.ok THEN NoErr ELSE Err("Failed to remove file", e),
          printed |-> rm.ok]
    ELSE IF e.status.tag = "UnManaged"
    THEN [ok |-> FALSE, dst |-> d, err |-> Err("File not exists", e), printed |-> FALSE]
    ELSE [ok |-> TRUE, dst |-> d, err |-> NoErr, printed |-> FALSE]

\* the outside failures that can strike the calls made for entry e
FaultsFor(op, e, force) ==
    IF op = "undeploy"
    THEN IF e.status.tag = "Deployed" THEN {"trash_fs", "trash_other"} ELSE {}
    ELSE IF e.status.tag = "UnDeployed" THEN {"symlink_io"}
    ELSE IF e.status.tag = "Conflict" /\ ReplaceOnConflict(force)
    THEN {"trash_fs", "trash_other", "symlink_io"}
    ELSE {}

(***************************************************************************)
(* The subcommands (src/src/subcommand.rs)                                 *)
(***************************************************************************)
Ops == {"deploy", "undeploy", "status", "update"}
\* repo_name: None ("*") or Some(name)
Selections == {"*"} \cup RepoSet

\* no filter: every configured repository
SeqSelectAll(rs, sel) == rs

RECURSIVE SeqSelect(_, _)
\* .filter(|repo| ...): the repositories the run visits, in configuration order
SeqSelect(rs, sel) ==
    IF rs = <<>> THEN <<>>
    ELSE IF sel = "*" \/ Head(rs) = sel
         THEN <<Head(rs)>> \o SeqSelect(Tail(rs), sel)
         ELSE SeqSelect(Tail(rs), sel)

\* how the per-repository results are consumed: update collects them into one
\* Result, which stops at the first Err; the others log each Err and go on
StopsAlways(op) == TRUE
StopsAtFirstError(op) == op = "update"



\* an error of the current repository that is not about one entry
RepoErr(ctx) == [ctx |-> ctx, from |-> NoPath, to |-> <<"", "">>, cause |-> UnDeployed.cause]
Logged(r, err) == [repo |-> r] @@ err

\* the exit status of the process: main ends normally after Ok, calls
\* std::process::exit(1) after Err, and a panic aborts with status 101
ExitStatus(res) == IF res = "ok" THEN 0 ELSE IF res = "err" THEN 1 ELSE 101

\* the subcommand returns to main, which logs an Err and exits with status 1
Return(res, errs, d, fl) ==
    /\ pc' = "idle"
    /\ result' = res
    /\ errors' = errs
    /\ hist' = Append(hist, [op |-> cmd.op, sel |-> cmd.sel, force |-> cmd.force,
                             failed |-> errs # <<>> \/ res # "ok", errors |-> errs,
                             dst |-> d])

\* the closure of one repository ended in Err(err)
RepoFailed(r, err, d, fl) ==
    IF StopsAtFirstError(cmd.op)
    THEN Return("err", Append(errors, Logged(r, err)), d, fl)
    ELSE /\ pc' = "repo"
         /\ errors' = Append(errors, Logged(r, err))
         /\ UNCHANGED <<result, hist>>

\* main parses the arguments, loads the configuration and calls the subcommand
Start(op, sel, force) ==
    /\ pc = "idle"
    /\ Len(hist) < limits.runs
    /\ op \in limits.ops
    /\ sel \in limits.sels
    /\ force => op \in {"deploy", "update"}
    /\ cmd' = [op |-> op, sel |-> sel, force |-> force]
    /\ queue' = SeqSelect(Repos, sel)
    /\ cur' = ""
    /\ plan' = <<>>
    /\ idx' = 1
    /\ errors' = <<>>
    /\ reported' = <<>>
    /\ attempts' = [r \in RepoSet |-> 0]
    /\ syncs' = <<>>
    /\ result' = "running"
    /\ dst0' = dst
    /\ seen' = dst
    /\ faulted' = FALSE
    /\ pc' = "repo"
    /\ UNCHANGED <<cfg, src, dst, faults, limits, hist>>
    /\ UNCHANGED <<env, calls>>

\* the .map closure of deploy, undeploy, status and update is entered for the
\* next selected repository: app_config.to_pathbuf()?
EnterRepo ==
    /\ pc = "repo"
    /\ queue # <<>>
    /\ cur' = Head(queue)
    /\ queue' = Tail(queue)
    /\ attempts' = [attempts EXCEPT ![Head(queue)] = @ + 1]
    /\ plan' = <<>>
    /\ idx' = 1
    /\ IF ~to_pathbuf.ok
       THEN RepoFailed(Head(queue), RepoErr("Path not defined"), dst, faulted)
       ELSE /\ pc' = IF cmd.op = "update" THEN "sync" ELSE "classify"
            /\ UNCHANGED <<errors, result, hist>>
    /\ UNCHANGED <<cfg, src, dst, cmd, reported, syncs, dst0, seen, faulted, faults,
                   limits>>
    /\ UNCHANGED <<env, calls>>

\* the iterator over the selected repositories is exhausted: Ok(())
Finish ==
    /\ pc = "repo"
    /\ queue = <<>>
    /\ Return("ok", errors, dst, faulted)
    /\ UNCHANGED <<cfg, src, dst, cmd, queue, cur, plan, idx, reported, attempts,
                   syncs, dst0, seen, faulted, faults, limits>>
    /\ UNCHANGED <<env, calls>>

\* what running git can come to: it exits with status 0 or not, with or
\* without text on stderr, or it cannot be executed at all
GitOutcomes == {"exit0", "exit0_noisy", "exit1", "exit1_noisy", "nospawn"}

\* output.status.success(), after git.output()? did not fail
SyncAlways(out) == TRUE
SyncSucceeded(out) == out \in {"exit0", "exit0_noisy"}

\* Repository.url
UrlOf(r) == <<"git", r>>

\* the git command git_update builds for the path <root>/<name>: pull with
\* that path as working directory when it exists, clone of the url into it
\* when it does not
GitAlwaysClone(r, path, exists) == [how |-> "clone", url |-> UrlOf(r), dest |-> path]
GitCommand(r, path, exists) ==
    IF exists THEN [how |-> "pull", url |-> <<>>, dest |-> path]
    ELSE [how |-> "clone", url |-> UrlOf(r), dest |-> path]

\* git_update: the git command is run; its outcome `out` decides
Sync(out) ==
    /\ pc = "sync"
    /\ syncs' = Append(syncs, [repo |-> cur, ok |-> SyncSucceeded(out), out |-> out]
                               @@ GitCommand(cur, Join(to_pathbuf.path, cur),
                                             src[cur].exists))
    /\ IF SyncSucceeded(out)
       THEN /\ src' = [src EXCEPT ![cur] = IF @.exists THEN @ ELSE Upstream(cur)]
            /\ pc' = "classify"
            /\ UNCHANGED <<errors, result, hist>>
       ELSE /\ src' = src
            /\ RepoFailed(cur, RepoErr("git"), dst, faulted)
    /\ UNCHANGED <<cfg, dst, cmd, queue, cur, plan, idx, reported, attempts, dst0,
                   seen, faulted, faults, limits>>
    /\ UNCHANGED <<env, calls>>

\* the lines status_impl prints: UnManaged entries are not shown
RECURSIVE StatusLines(_)
StatusLines(list) ==
    IF list = <<>> THEN <<>>
    ELSE IF Head(list).status.tag \in {"Deployed", "UnDeployed", "Conflict"}
         THEN <<Line(Head(list).status.tag, Head(list))>> \o StatusLines(Tail(list))
         ELSE StatusLines(Tail(list))

\* status calls status_impl, which classifies and prints; the other
\* subcommands go on to act on the classified entries
ActsAlways(op) == FALSE
PrintsOnly(op) == op = "status"

\* create_deploy_path, filter_map(Result::ok), create_deploy_status and the
\* first collect of deploy_impl / undeploy_impl; status_impl prints instead.
\* ord is the order in which read_dir yields names, f an outside failure
Classify(ord, f) ==
    /\ pc = "classify"
    /\ LET list == create_deploy_status(cur,
                       SeqFilterOk(create_deploy_path(to_pathbuf.path, cur)), ord)
           panics == \E i \in 1..Len(list) : list[i].status.tag = "Panic"
       IN /\ f = "enum_io" => faults < limits.faults /\ list # <<>> /\ cmd.op # "status"
          /\ faults' = IF f = "none" THEN faults ELSE faults + 1
          /\ faulted' = (faulted \/ f # "none")
          /\ IF panics
             THEN /\ Return("panic", errors, dst, faulted')
                  /\ UNCHANGED <<plan, reported>>
             ELSE IF PrintsOnly(cmd.op)
             THEN /\ reported' = reported \o StatusLines(list)
                  /\ pc' = "repo"
                  /\ UNCHANGED <<plan, errors, result, hist>>
             ELSE IF f = "enum_io"
             THEN /\ RepoFailed(cur, RepoErr("Failed to read deploy source directory entry"),
                                dst, faulted')
                  /\ UNCHANGED <<plan, reported>>
             ELSE /\ plan' = list
                  /\ pc' = IF list = <<>> THEN "repo" ELSE "apply"
                  /\ UNCHANGED <<reported, errors, result, hist>>
    /\ seen' = dst
    /\ UNCHANGED <<cfg, src, dst, cmd, queue, cur, idx, attempts, syncs, dst0, limits>>
    /\ UNCHANGED <<env, calls>>

\* the second .map of deploy_impl / undeploy_impl acts on the next classified
\* entry; the collect into one Result stops at the first Err
Apply(f) ==
    /\ pc = "apply"
    /\ idx <= Len(plan)
    /\ LET e == plan[idx]
           r == IF cmd.op = "undeploy" THEN UndeployEntry(dst, e, f)
                ELSE DeployEntry(dst, e, cmd.force, f)
       IN /\ f # "none" => faults < limits.faults /\ f \in FaultsFor(cmd.op, e, cmd.force)
          /\ faults' = IF f = "none" THEN faults ELSE faults + 1
          /\ faulted' = (faulted \/ f # "none")
          /\ dst' = r.dst
          /\ reported' = IF r.printed /\ ~cfg.quiet
                         THEN Append(reported,
                                     Line(IF cmd.op = "undeploy" THEN "UnDeployed"
                                          ELSE "Deployed", e))
                         ELSE reported
          /\ IF r.ok
             THEN /\ idx' = idx + 1
                  /\ pc' = IF idx = Len(plan) THEN "repo" ELSE "apply"
                  /\ UNCHANGED <<errors, result, hist>>
             ELSE /\ idx' = idx
                  /\ RepoFailed(cur, r.err, r.dst, faulted')
    /\ UNCHANGED <<cfg, src, cmd, queue, cur, plan, attempts, syncs, dst0, seen, limits>>
    /\ UNCHANGED <<env, calls>>

(***************************************************************************)
(* Initial states                                                          *)
(***************************************************************************)
\* what may lie at a destination before the tool runs
JunkNodes == {Absent, File, Dir, Link(Elsewhere), Link(SourceA)}

TypeCfg == [root : RootChoices, cfgDest : {"C", "H", "?"}, quiet : BOOLEAN]

\* destinations of every kind under the documented configuration, one run
InitFs ==
    /\ cfg = [root |-> RootAbs, cfgDest |-> "C", quiet |-> FALSE]
    /\ src = [r \in RepoSet |-> Upstream(r)]
    /\ dst \in {d \in [DestPaths -> JunkNodes] :
                  /\ \A p \in DestPaths : p \notin {<<"H", "a">>, <<"H", "b">>, <<"H", "c">>}
                                            => d[p] = Absent
                  /\ d[<<"H", "b">>] # Link(SourceA)
                  /\ d[<<"H", "c">>] \in {Absent, File}}
    /\ limits = [runs |-> 1, faults |-> MaxFaults, ops |-> Ops, sels |-> Selections]

\* every configuration and dotfiles tree over nearly empty destinations, one run
InitCfg ==
    /\ cfg \in TypeCfg
    /\ src \in {s \in [RepoSet -> {AbsentRepo, Upstream("r1"), UpstreamDangling("r1"),
                                   Upstream("r2")}] :
                  /\ s["r1"] \in {AbsentRepo, Upstream("r1"), UpstreamDangling("r1")}
                  /\ s["r2"] = Upstream("r2")}
    /\ dst \in {d \in [DestPaths -> {Absent, File}] :
                  \A p \in DestPaths : p # <<"H", "a">> => d[p] = Absent}
    /\ limits = [runs |-> 1, faults |-> MaxFaults, ops |-> Ops, sels |-> Selections]

\* sessions of several deploy and undeploy runs on one selection of
\* repositories, without outside failures
InitSeq ==
    /\ cfg \in {c \in TypeCfg : c.root # NoPath /\ c.cfgDest # "?" /\ ~c.quiet}
    /\ src = [r \in RepoSet |-> Upstream(r)]
    /\ dst \in {d \in [DestPaths -> JunkNodes] :
                  \A p \in DestPaths : p # <<"H", "a">> => d[p] = Absent}
    /\ limits \in {[runs |-> MaxRuns, faults |-> 0, ops |-> {"deploy", "undeploy"},
                   sels |-> {sel}] : sel \in Selections}

Init ==
    /\ \/ InitFs
       \/ InitCfg
       \/ InitSeq
    /\ pc = "idle"
    /\ cmd = [op |-> "status", sel |-> "*", force |-> FALSE]
    /\ queue = <<>>
    /\ cur = ""
    /\ plan = <<>>
    /\ idx = 1
    /\ errors = <<>>
    /\ reported = <<>>
    /\ attempts = [r \in RepoSet |-> 0]
    /\ syncs = <<>>
    /\ result = "ok"
    /\ dst0 = dst
    /\ seen = dst
    /\ faulted = FALSE
    /\ faults = 0
    /\ hist = <<>>
    /\ env = SessionEnv
    /\ calls = <<>>

Next ==
    \/ \E op \in Ops, sel \in Selections, force \in BOOLEAN : Start(op, sel, force)
    \/ EnterRepo
    \/ Finish
    \/ \E out \in GitOutcomes : Sync(out)
    \/ \E ord \in Perms(Names), f \in {"none", "enum_io"} : Classify(ord, f)
    \/ \E f \in {"none"} \cup FaultKinds : Apply(f)

Spec == Init /\ [][Next]_vars

(***************************************************************************)
(* The classifier on its own: get_status applied to source and destination *)
(* paths of every kind                                                     *)
(***************************************************************************)
\* the absolute path of r1/home/a written with "." and ".."
SourceADotted == Path(TRUE, <<"d", ".", "r1", "..", "r1", "home", "a">>)
\* the same path written relative to the working directory
SourceARel == Path(FALSE, <<"..", "d", "r1", "home", "a">>)
\* a path at which nothing exists
Gone == Path(TRUE, <<"x", "gone">>)
\* a relative path with more ".." than the working directory is deep
AboveRoot == Path(FALSE, <<"..", "..", "x">>)

\* what may lie at the probed destination
ProbeNodes == JunkNodes \cup {Link(SourceADotted), Link(SourceARel), Link(Gone),
                              Link(AboveRoot)}

\* the source paths probed: r1/home/a in two spellings, r1/home/b (a file or
\* a dangling symlink) and r1/home/c, which the repository does not hold
ProbeSources == {SourceA, SourceARel,
                 Path(TRUE, <<"d", "r1", "home", "b">>),
                 Path(TRUE, <<"d", "r1", "home", "c">>)}
ProbeDestinations == {<<"H", "a">>, <<"H", "b">>}

InitClassify ==
    /\ cfg = [root |-> RootAbs, cfgDest |-> "C", quiet |-> FALSE]
    /\ src \in {s \in [RepoSet -> {AbsentRepo, Upstream("r1"), UpstreamDangling("r1"),
                                   Upstream("r2")}] :
                  /\ s["r1"] \in {AbsentRepo, Upstream("r1"), UpstreamDangling("r1")}
                  /\ s["r2"] = Upstream("r2")}
    /\ dst \in {d \in [DestPaths -> ProbeNodes] :
                  /\ \A p \in DestPaths : p \notin ProbeDestinations => d[p] = Absent
                  /\ d[<<"H", "b">>] \in {Absent, File}}
    /\ limits = [runs |-> 0, faults |-> 0, ops |-> {}, sels |-> {}]
    /\ pc = "probe"
    /\ cmd = [op |-> "status", sel |-> "*", force |-> FALSE]
    /\ queue = <<>>
    /\ cur = ""
    /\ plan = <<>>
    /\ idx = 1
    /\ errors = <<>>
    /\ reported = <<>>
    /\ attempts = [r \in RepoSet |-> 0]
    /\ syncs = <<>>
    /\ result = "ok"
    /\ dst0 = dst
    /\ seen = dst
    /\ faulted = FALSE
    /\ faults = 0
    /\ hist = <<>>
    /\ env = SessionEnv
    /\ calls = <<>>

\* get_status(from, to) is called; plan collects what it returned and
\* reported the hash of each value; an unwrap that fails aborts the process
Probe(from, to) ==
    /\ pc = "probe"
    /\ Len(plan) < MaxProbes
    /\ LET st == get_status(dst, from, to) IN
       IF st = Panic
       THEN /\ pc' = "aborted"
            /\ result' = "panic"
            /\ errors' = Append(errors, Logged("", [ctx |-> "panic", from |-> from,
                                                     to |-> to, cause |-> st.cause]))
            /\ UNCHANGED <<plan, reported>>
       ELSE /\ plan' = Append(plan, [status |-> st, from |-> from, to |-> to])
            /\ reported' = Append(reported, [hash |-> hash(st)])
            /\ UNCHANGED <<pc, result, errors>>
    /\ UNCHANGED <<cfg, src, dst, cmd, queue, cur, idx, attempts, syncs, dst0, seen,
                   faulted, faults, limits, hist>>
    /\ UNCHANGED <<env, calls>>

NextClassify == \E from \in ProbeSources, to \in ProbeDestinations : Probe(from, to)

SpecClassify == InitClassify /\ [][NextClassify]_vars

(***************************************************************************)
(* Path resolution on its own: OsPath::to_pathbuf applied to templates of  *)
(* every shape, in environments that change between the calls              *)
(***************************************************************************)
RECURSIVE Strings(_)
\* the strings of at most n characters
Strings(n) ==
    IF n = 0 THEN {<<>>}
    ELSE LET S == Strings(n - 1) IN
         S \cup {Append(t, c) : t \in {u \in S : Len(u) = n - 1}, c \in Chars}

Templates == Strings(MaxLen)

\* ${name}
Ref(name) == <<"$", "{">> \o name \o <<"}">>

\* the templates of the documented configuration, ${HOME} and
\* ${XDG_CONFIG_HOME}, and a reference to each of the other names
DocTemplates == {Ref(<<n>>) : n \in {"H", "X", "D", "C", "S", "R"}}

\* OsPath values with each variant absent, empty or given
OsPaths ==
    {OsPath(w, m, l) : w \in {None, Some(<<"W">>)}, m \in {None, Some(<<"M">>)},
                       l \in {None, Some(<<>>)} \cup {Some(t) : t \in DocTemplates}}

RECURSIVE WinStrings(_)
\* the Windows templates of at most n characters
WinStrings(n) ==
    IF n = 0 THEN {<<>>}
    ELSE LET S == WinStrings(n - 1) IN
         S \cup {Append(t, c) : t \in {u \in S : Len(u) = n - 1}, c \in WinChars}

\* the environments of the process on Windows
WinEnvs ==
    {[os |-> "windows", H |-> h, X |-> None, R |-> None] :
        h \in {None, Some(ProfileValue), Some(ProfileReference)}}
\* the environments of the process on macOS
MacEnvs ==
    {[os |-> "macos", H |-> Some(HomeValue), X |-> x, R |-> None] :
        x \in {None, Some(XdgValue)}}

\* every template as the Linux variant, resolved once in the session environment
InitTemplates ==
    /\ cfg \in {[dotfiles |-> OsPath(None, None, Some(t))] : t \in Templates}
    /\ env = SessionEnv
    /\ limits = [runs |-> 1, envs |-> {}]

\* the OsPath values in every environment, resolved several times while the
\* environment changes
InitEnvs ==
    /\ cfg \in {[dotfiles |-> p] : p \in OsPaths}
    /\ env \in Envs
    /\ limits = [runs |-> MaxCalls, envs |-> Envs]

\* the Windows build: every Windows template as the Windows variant,
\* resolved once
InitWindows ==
    /\ cfg \in {[dotfiles |-> OsPath(Some(t), None, l)] :
                   t \in WinStrings(MaxLen), l \in {None, Some(Ref(<<"H">>))}}
    /\ env \in WinEnvs
    /\ limits = [runs |-> 1, envs |-> {}]

\* the macOS build: the documented templates as the Mac variant, resolved once
InitMac ==
    /\ cfg \in {[dotfiles |-> OsPath(None, m, l)] :
                   m \in {None, Some(<<>>)} \cup {Some(t) : t \in DocTemplates},
                   l \in {None, Some(Ref(<<"H">>))}}
    /\ env \in MacEnvs
    /\ limits = [runs |-> 1, envs |-> {}]

InitExpand ==
    /\ \/ InitTemplates
       \/ InitEnvs
       \/ InitWindows
       \/ InitMac
    /\ src = [r \in RepoSet |-> AbsentRepo]
    /\ dst = [p \in DestPaths |-> Absent]
    /\ pc = "resolve"
    /\ cmd = [op |-> "status", sel |-> "*", force |-> FALSE]
    /\ queue = <<>>
    /\ cur = ""
    /\ plan = <<>>
    /\ idx = 1
    /\ errors = <<>>
    /\ reported = <<>>
    /\ attempts = [r \in RepoSet |-> 0]
    /\ syncs = <<>>
    /\ result = "ok"
    /\ dst0 = dst
    /\ seen = dst
    /\ faulted = FALSE
    /\ faults = 0
    /\ hist = <<>>
    /\ calls = <<>>

\* cfg.dotfiles.to_pathbuf() is called; calls records the environment of the
\* call and what it returned
ToPathbuf ==
    /\ pc = "resolve"
    /\ Len(calls) < limits.runs
    /\ calls' = Append(calls, [env |-> env, res |-> OsPath_to_pathbuf(cfg.dotfiles, env)])
    /\ IF OsPath_to_pathbuf(cfg.dotfiles, env) = Panicked
       THEN pc' = "aborted" /\ result' = "panic"
       ELSE UNCHANGED <<pc, result>>
    /\ UNCHANGED <<cfg, src, dst, cmd, queue, cur, plan, idx, errors, reported,
                   attempts, syncs, dst0, seen, faulted, faults, limits, hist, env>>

\* the environment of the process changes between two calls
SetEnv(e) ==
    /\ pc = "resolve"
    /\ e \in limits.envs
    /\ e # env
    /\ env' = e
    /\ UNCHANGED <<cfg, src, dst, pc, cmd, queue, cur, plan, idx, errors, reported,
                   attempts, syncs, result, dst0, seen, faulted, faults, limits, hist,
                   calls>>

NextExpand ==
    \/ ToPathbuf
    \/ \E e \in Envs : SetEnv(e)

SpecExpand == InitExpand /\ [][NextExpand]_vars



(***************************************************************************)
(* Vocabulary of the properties                                            *)
(***************************************************************************)
\* a run has returned to main; the logs of the run are still in place
RunEnded == pc = "idle" /\ hist # <<>>

\* the repositories the current run selects
Selected == {r \in RepoSet : cmd.sel = "*" \/ r = cmd.sel}

AnyOrd == CHOOSE s \in Perms(Names) : TRUE

\* the (source, destination) pairs the reconciler enumerates for repository r
Enumerated(r) ==
    LET list == create_deploy_status(r,
                    SeqFilterOk(create_deploy_path(cfg.root, r)), AnyOrd)
    IN {[repo |-> r, from |-> list[i].from, to |-> list[i].to] : i \in 1..Len(list)}

EnumeratedAll(rs) == UNION {Enumerated(r) : r \in rs}

\* no two enumerated entries of the repositories rs have the same destination
DistinctDestinations(rs) ==
    \A e1, e2 \in EnumeratedAll(rs) : e1.to = e2.to => e1 = e2

\* the symlinks of a destination tree, as (path, target) pairs
Links(d) == {<<p, d[p].target>> : p \in {q \in DestPaths : d[q].kind = "symlink"}}

\* the same with every target absolutized
LinksAbs(d) == {<<l[1], absolutize(l[2]).path>> : l \in Links(d)}

\* position of repository r in the configuration
PosOf(r) == CHOOSE i \in 1..Len(Repos) : Repos[i] = r

(***************************************************************************)
(* C1 (fails on the code).  In a Deploy of one repository during which no   *)
(* filesystem call fails for an outside reason, every entry that was        *)
(* UnDeployed before the run and shares its destination with no other       *)
(* entry is a symlink to its source after the run, whatever happened to     *)
(* the other entries and in whatever order they were enumerated.            *)
(***************************************************************************)
C1_FailureDoesNotStopOtherEntries ==
    (RunEnded /\ cmd.op = "deploy" /\ cmd.sel \in RepoSet /\ cfg.root # NoPath /\ ~faulted)
    => \A e \in Enumerated(cmd.sel) :
          ( /\ get_status(dst0, e.from, e.to).tag = "UnDeployed"
            /\ \A o \in Enumerated(cmd.sel) : o.to = e.to => o = e )
          => /\ dst[e.to].kind = "symlink"
             /\ LinkMatches(e.from, dst[e.to].target)

(***************************************************************************)
(* C2 (fails on the code).  In an Update of all repositories, when the      *)
(* synchronizer fails for one repository, every repository after it in      *)
(* configuration order is still synchronized.                               *)
(***************************************************************************)
C2_SyncFailureAbortsOnlyThatRepository ==
    (RunEnded /\ cmd.op = "update" /\ cmd.sel = "*" /\ cfg.root # NoPath)
    => \A i \in 1..Len(syncs) :
          ~syncs[i].ok
          => \A r \in RepoSet :
                PosOf(r) > PosOf(syncs[i].repo)
                => \E j \in 1..Len(syncs) : syncs[j].repo = r

(***************************************************************************)
(* C3.  When deploy or undeploy returns, the closure of every selected      *)
(* repository has been entered exactly once and that of no other            *)
(* repository at all, whether or not an earlier repository failed.          *)
(***************************************************************************)
C3_EachSelectedRepositoryAttemptedOnce ==
    (RunEnded /\ cmd.op \in {"deploy", "undeploy"} /\ result # "panic")
    => \A r \in RepoSet : attempts[r] = IF r \in Selected THEN 1 ELSE 0

\* a run over both repositories in which r1 failed on an entry and r2 was
\* still attempted
C3_Witness ==
    /\ RunEnded
    /\ cmd.op = "deploy"
    /\ cmd.sel = "*"
    /\ errors # <<>>
    /\ errors[1].repo = "r1"
    /\ errors[1].ctx = "Failed to deploy"
    /\ attempts["r2"] = 1

(***************************************************************************)
(* C4 (fails on the code).  After a Deploy of one repository during which   *)
(* no filesystem call fails for an outside reason, every entry that was     *)
(* Conflict (without force) or UnManaged before the run has an error in     *)
(* the log of the run.                                                      *)
(***************************************************************************)
C4_EveryFailedEntryIsReported ==
    (RunEnded /\ cmd.op = "deploy" /\ cmd.sel \in RepoSet /\ cfg.root # NoPath /\ ~faulted)
    => \A e \in Enumerated(cmd.sel) :
          ( \/ get_status(dst0, e.from, e.to).tag = "Conflict" /\ ~cmd.force
            \/ get_status(dst0, e.from, e.to).tag = "UnManaged" )
          => \E i \in 1..Len(errors) : errors[i].from = e.from /\ errors[i].to = e.to


(***************************************************************************)
(* Runs that follow one another                                            *)
(***************************************************************************)
\* the last n finished runs were the subcommands ops, in this order, the
\* last of them being the run whose logs are in place
LastRuns(ops) ==
    /\ RunEnded
    /\ Len(hist) >= Len(ops)
    /\ \A i \in 1..Len(ops) : hist[Len(hist) - Len(ops) + i].op = ops[i]

\* the summary of the run k runs before the last one
Back(k) == hist[Len(hist) - k]

\* every enumerated entry of the repositories rs is classified Deployed in d
AllDeployed(d, rs) ==
    \A e \in EnumeratedAll(rs) : get_status(d, e.from, e.to).tag = "Deployed"

(***************************************************************************)
(* C5 as stated (fails).  After two Deploy runs in succession the           *)
(* destinations are as the first run left them, every enumerated entry is   *)
(* Deployed, the second run logged no error the first had not logged and    *)
(* reported no entry as Deployed.                                           *)
(***************************************************************************)
C5_Original ==
    LastRuns(<<"deploy", "deploy">>)
    => /\ Back(0).dst = Back(1).dst
       /\ AllDeployed(dst, Selected)
       /\ \A i \in 1..Len(errors) : \E j \in 1..Len(Back(1).errors) :
             errors[i] = Back(1).errors[j]
       /\ reported = <<>>

(***************************************************************************)
(* C5 (amended).  When a Deploy run reported no failure and no two          *)
(* enumerated entries of the selected repositories have the same            *)
(* destination, a Deploy run that follows it directly leaves the            *)
(* destinations as they were, with every enumerated entry Deployed, logs    *)
(* no error and reports no entry as Deployed.                               *)
(***************************************************************************)
C5_SecondDeployIsNoOp ==
    (LastRuns(<<"deploy", "deploy">>) /\ ~Back(1).failed /\ DistinctDestinations(Selected))
    => /\ Back(0).dst = Back(1).dst
       /\ AllDeployed(dst, Selected)
       /\ errors = <<>>
       /\ reported = <<>>
       /\ result = "ok"

\* two Deploy runs of r1 in succession, the first of which created symlinks
C5_Witness ==
    /\ LastRuns(<<"deploy", "deploy">>)
    /\ Len(hist) = 2
    /\ ~Back(1).failed
    /\ DistinctDestinations(Selected)
    /\ "r1" \in Selected
    /\ Links(Back(1).dst) # {}
    /\ Links(dst0) = Links(dst)

(***************************************************************************)
(* C6 as stated (fails).  Deploy, Undeploy, Deploy: the symlinks after the  *)
(* third run are those after the first, whatever the force switch of the    *)
(* third run.                                                               *)
(***************************************************************************)
C6_Original ==
    LastRuns(<<"deploy", "undeploy", "deploy">>)
    => Links(Back(0).dst) = Links(Back(2).dst)

(***************************************************************************)
(* C6 (amended).  Deploy, Undeploy, Deploy, none of the three runs          *)
(* reporting a failure: the symlinks after the third run are at the paths   *)
(* of those after the first and their absolutized targets are the same,     *)
(* with or without force on the third.                                      *)
(***************************************************************************)
C6_RoundTrip ==
    ( /\ LastRuns(<<"deploy", "undeploy", "deploy">>)
      /\ ~Back(2).failed /\ ~Back(1).failed /\ ~Back(0).failed )
    => LinksAbs(Back(0).dst) = LinksAbs(Back(2).dst)

\* a round trip whose first Deploy replaced a regular file by force, whose
\* Undeploy removed every symlink and whose second Deploy ran without force
C6_Witness ==
    /\ LastRuns(<<"deploy", "undeploy", "deploy">>)
    /\ Len(hist) = 3
    /\ ~Back(2).failed /\ ~Back(1).failed /\ ~Back(0).failed
    /\ Back(2).force
    /\ ~Back(0).force
    /\ Links(Back(2).dst) # {}
    /\ Links(Back(1).dst) = {}
    /\ \E p \in DestPaths : Back(2).dst[p].kind = "symlink" /\ dst[p].kind = "symlink"

(***************************************************************************)
(* C7.  In a Deploy without force, the destination of an entry classified   *)
(* Conflict is, from classification on, the node it was (same kind, same    *)
(* link target); the run never gets past such an entry, and when it has     *)
(* acted on it the last error logged is "Failed to deploy" for that entry   *)
(* with the cause of the classification.                                    *)
(***************************************************************************)
C7_ConflictWithoutForceUntouched ==
    (cmd.op \in {"deploy", "update"} /\ ~cmd.force)
    => \A i \in 1..Len(plan) :
          plan[i].status.tag = "Conflict"
          => /\ dst[plan[i].to] = seen[plan[i].to]
             /\ i >= idx
             /\ (i = idx /\ pc # "apply")
                => /\ errors # <<>>
                   /\ errors[Len(errors)] = Logged(cur, Err("Failed to deploy", plan[i]))
                   /\ errors[Len(errors)].cause.text
                        \in {"Other file exists.", "Symlink to different path."}

\* a Deploy without force has failed on an entry whose destination is a
\* symlink to another path, and the symlink is still there
C7_Witness ==
    /\ RunEnded
    /\ cmd.op = "deploy"
    /\ ~cmd.force
    /\ plan # <<>>
    /\ idx <= Len(plan)
    /\ plan[idx].status.tag = "Conflict"
    /\ dst[plan[idx].to] = Link(Elsewhere)
    /\ errors # <<>>
    /\ errors[Len(errors)].cause.path = Elsewhere

(***************************************************************************)
(* C8.  When Deploy with force has acted on an entry classified Conflict    *)
(* and neither the removal nor the symlink creation failed, the             *)
(* destination is a symlink to the source entry and the entry classifies    *)
(* as Deployed.                                                             *)
(***************************************************************************)
C8_ForcedReplaceDeploys ==
    [][ ( /\ pc = "apply"
          /\ cmd.op \in {"deploy", "update"}
          /\ cmd.force
          /\ plan[idx].status.tag = "Conflict"
          /\ idx' = idx + 1 )
        => /\ dst'[plan[idx].to] = Link(plan[idx].from)
           /\ get_status(dst', plan[idx].from, plan[idx].to) = Deployed
           /\ \A p \in DestPaths : p # plan[idx].to => dst'[p] = dst[p] ]_vars

\* Deploy with force has just replaced a directory by a symlink
C8_Witness ==
    /\ cmd.op = "deploy"
    /\ cmd.force
    /\ idx > 1
    /\ idx <= Len(plan) + 1
    /\ plan[idx - 1].status.tag = "Conflict"
    /\ seen[plan[idx - 1].to] = Dir
    /\ dst[plan[idx - 1].to] = Link(plan[idx - 1].from)

\* the source path <dotfiles-root>/<repository>/<dirname>/<name> and the
\* destination <destination-dir>/<name> of the mapping entries of repository r
ConfiguredPairs(r) ==
    LET dep == DeployOf(r, cfg.cfgDest) IN
    {[from |-> Join(Join(Join(cfg.root, r), dep[i].dir), n), to |-> <<dep[i].dest, n>>] :
        i \in 1..Len(dep), n \in Names}

\* Deploy acts on an entry classified UnDeployed and the symlink call succeeds
C9_Step ==
    /\ pc = "apply"
    /\ cmd.op \in {"deploy", "update"}
    /\ plan[idx].status.tag = "UnDeployed"
    /\ idx' = idx + 1

(***************************************************************************)
(* C9 (fails on the code).  When Deploy has acted on an entry classified    *)
(* UnDeployed and the symlink creation did not fail, <destination-dir>/     *)
(* <name> is a symlink whose target is the absolutized source path          *)
(* <dotfiles-root>/<repository>/<dirname>/<name>, and the entry classifies  *)
(* as Deployed.                                                             *)
(***************************************************************************)
C9_DeployCreatesLink ==
    [][ C9_Step
        => /\ [from |-> plan[idx].from, to |-> plan[idx].to] \in ConfiguredPairs(cur)
           /\ dst'[plan[idx].to] = Link(absolutize(plan[idx].from).path)
           /\ get_status(dst', plan[idx].from, plan[idx].to) = Deployed ]_vars

(***************************************************************************)
(* C10.  When Undeploy has acted on an entry classified Deployed and the    *)
(* removal did not fail, the destination does not exist and the entry       *)
(* classifies as UnDeployed; when it acts on an entry classified            *)
(* UnDeployed it succeeds and changes, logs and reports nothing.            *)
(***************************************************************************)
C10_UndeployRemovesLink ==
    [][ (pc = "apply" /\ cmd.op = "undeploy")
        => /\ (plan[idx].status.tag = "Deployed" /\ idx' = idx + 1)
              => /\ dst'[plan[idx].to] = Absent
                 /\ get_status(dst', plan[idx].from, plan[idx].to) = UnDeployed
                 /\ \A p \in DestPaths : p # plan[idx].to => dst'[p] = dst[p]
           /\ plan[idx].status.tag = "UnDeployed"
              => /\ idx' = idx + 1
                 /\ dst' = dst
                 /\ errors' = errors
                 /\ reported' = reported ]_vars

\* Undeploy has just removed the symlink of an entry that was Deployed
C10_Witness ==
    /\ cmd.op = "undeploy"
    /\ idx > 1
    /\ idx <= Len(plan) + 1
    /\ plan[idx - 1].status.tag = "Deployed"
    /\ seen[plan[idx - 1].to].kind = "symlink"
    /\ dst[plan[idx - 1].to] = Absent

(***************************************************************************)
(* C11.  In an Undeploy run every step leaves each destination as it is,    *)
(* except the step that acts on an entry classified Deployed: it changes    *)
(* only that entry's destination, which is at that moment a symlink to the  *)
(* entry's source and is absent afterwards.  The step on an entry           *)
(* classified Conflict changes nothing.                                     *)
(***************************************************************************)
C11_UndeployRemovesOnlyDeployed ==
    [][ (cmd.op = "undeploy" /\ pc # "idle")
        => /\ \A p \in DestPaths :
                dst'[p] # dst[p]
                => /\ pc = "apply"
                   /\ p = plan[idx].to
                   /\ plan[idx].status = Deployed
                   /\ get_status(dst, plan[idx].from, p) = Deployed
                   /\ dst'[p] = Absent
           /\ (pc = "apply" /\ plan[idx].status.tag = "Conflict")
              => /\ dst' = dst
                 /\ idx' = idx + 1
                 /\ errors' = errors ]_vars

\* an Undeploy has passed an entry whose destination is a directory, which
\* is still there, and has removed the symlink of a Deployed entry
C11_Witness ==
    /\ cmd.op = "undeploy"
    /\ \E i, j \in 1..Len(plan) :
          /\ i < idx
          /\ j < idx
          /\ plan[i].status.tag = "Conflict"
          /\ dst[plan[i].to] = Dir
          /\ plan[j].status.tag = "Deployed"
          /\ dst[plan[j].to] = Absent

(***************************************************************************)
(* C12.  In Deploy, Update and Undeploy, the destination of an entry        *)
(* classified UnManaged is, from classification on, the node it was; the    *)
(* run of the repository never gets past such an entry, and when it has     *)
(* acted on it the last error logged is "File not exists" for that entry    *)
(* and no line was printed for it.                                          *)
(***************************************************************************)
C12_UnManagedIsAFailure ==
    (cmd.op \in {"deploy", "update", "undeploy"})
    => \A i \in 1..Len(plan) :
          plan[i].status.tag = "UnManaged"
          => /\ dst[plan[i].to] = seen[plan[i].to]
             /\ i >= idx
             /\ \A k \in 1..Len(reported) : reported[k].from # plan[i].from
             /\ (i = idx /\ pc # "apply")
                => /\ errors # <<>>
                   /\ errors[Len(errors)] = Logged(cur, Err("File not exists", plan[i]))
                   /\ (pc = "idle" => hist[Len(hist)].failed)

\* an Undeploy has failed on an entry whose source is a dangling symlink
C12_Witness ==
    /\ RunEnded
    /\ cmd.op = "undeploy"
    /\ plan # <<>>
    /\ idx <= Len(plan)
    /\ plan[idx].status.tag = "UnManaged"
    /\ errors # <<>>
    /\ errors[Len(errors)].ctx = "File not exists"
    /\ dst = dst0

(***************************************************************************)
(* C13.  No step of a Status run changes the destination directories or    *)
(* the dotfiles tree: after the run the filesystem is what it was before.   *)
(***************************************************************************)
C13_StatusDoesNotMutate ==
    [][ (cmd.op = "status" /\ pc # "idle")
        => /\ dst' = dst
           /\ src' = src
           /\ dst' = dst0 ]_vars

\* a Status run over both repositories has printed a Conflict and an
\* UnDeployed line
C13_Witness ==
    /\ RunEnded
    /\ cmd.op = "status"
    /\ cmd.sel = "*"
    /\ \E i, j \in 1..Len(reported) :
          reported[i].tag = "Conflict" /\ reported[j].tag = "UnDeployed"
    /\ dst = dst0

(***************************************************************************)
(* C20.  In Update, the step that runs git for a repository goes on to      *)
(* classify that repository exactly when git exited with status 0, with or  *)
(* without text on stderr; otherwise it ends the run with an error, no      *)
(* entry of the repository classified and no destination changed.           *)
(***************************************************************************)
C20_SyncFailureSkipsDeploy ==
    [][ pc = "sync"
        => LET s == syncs'[Len(syncs')] IN
           /\ cmd.op = "update"
           /\ s.repo = cur
           /\ s.out \in {"exit0", "exit0_noisy"}
              => /\ pc' = "classify"
                 /\ errors' = errors
           /\ s.out \in {"exit1", "exit1_noisy", "nospawn"}
              => /\ pc' = "idle"
                 /\ result' = "err"
                 /\ errors' = Append(errors, Logged(cur, RepoErr("git")))
                 /\ plan' = <<>>
                 /\ dst' = dst ]_vars

\* an Update has ended on a failed git pull of a repository whose entries
\* are all undeployed, and none of them was linked
C20_Witness ==
    /\ RunEnded
    /\ cmd.op = "update"
    /\ syncs # <<>>
    /\ syncs[Len(syncs)].out = "exit1"
    /\ syncs[Len(syncs)].how = "pull"
    /\ plan = <<>>
    /\ \A e \in Enumerated(cur) : dst[e.to] = Absent
    /\ Enumerated(cur) # {}

(***************************************************************************)
(* Vocabulary of the classifier properties                                 *)
(***************************************************************************)
\* the calls of get_status made so far, with what each returned; a call that
\* aborted the process appears with Panic
Probes ==
    {[status |-> plan[i].status, from |-> plan[i].from, to |-> plan[i].to] :
        i \in 1..Len(plan)}
    \cup {[status |-> Panic, from |-> errors[k].from, to |-> errors[k].to] :
            k \in {n \in 1..Len(errors) : errors[n].ctx = "panic"}}

\* `to` is a symlink whose absolutized target is the absolutized `from`
IsLinkTo(d, from, to) ==
    /\ d[to].kind = "symlink"
    /\ absolutize(d[to].target).ok
    /\ absolutize(from).ok
    /\ absolutize(d[to].target).path = absolutize(from).path

(***************************************************************************)
(* C14.  Every call of the classifier with an absent source returns         *)
(* UnManaged, whatever is at the destination: nothing, a file, a            *)
(* directory, a symlink to the source path or a symlink elsewhere.          *)
(***************************************************************************)
C14_AbsentSourceIsUnManaged ==
    \A q \in Probes : ~SrcExists(q.from) => q.status = UnManaged

\* the classifier was called for a missing source whose destination is a
\* symlink to the source path, and for one whose destination is a file
C14_Witness ==
    \E q1, q2 \in Probes :
        /\ q1.status = UnManaged
        /\ q1.from = SourceA
        /\ dst[q1.to] = Link(SourceA)
        /\ q2.status = UnManaged
        /\ dst[q2.to] = File

(***************************************************************************)
(* C15.  A call of the classifier returns Deployed exactly when the source  *)
(* is present and the destination is a symlink whose absolutized target is  *)
(* the absolutized source path; the spelling of either path ("." and ".."   *)
(* components, relative to the working directory) does not matter.          *)
(***************************************************************************)
C15_DeployedIffLinkToSource ==
    \A q \in Probes :
        q.status = Deployed <=> (SrcExists(q.from) /\ IsLinkTo(dst, q.from, q.to))

\* Deployed was returned for a link whose target is written with "." and
\* ".." and a source written relative to the working directory
C15_Witness ==
    \E q \in Probes :
        /\ q.status = Deployed
        /\ q.from = SourceARel
        /\ dst[q.to] = Link(SourceADotted)

(***************************************************************************)
(* C16 as stated (fails).  A call of the classifier that returns, returns   *)
(* UnDeployed exactly when the source is present and the destination does   *)
(* not exist as exists() probes it, a dangling symlink included.            *)
(***************************************************************************)
C16_Original ==
    \A q \in Probes :
        q.status # Panic
        => (q.status = UnDeployed <=> (SrcExists(q.from) /\ ~Exists(dst, q.to)))

(***************************************************************************)
(* C16 (amended).  A call of the classifier returns UnDeployed exactly      *)
(* when the source is present and nothing at all is at the destination: no  *)
(* file, no directory and no symlink, dangling or not.                      *)
(***************************************************************************)
C16_UnDeployedIffNothingAtDestination ==
    \A q \in Probes :
        q.status = UnDeployed <=> (SrcExists(q.from) /\ dst[q.to].kind = "absent")

\* the classifier returned UnDeployed for an empty destination and Conflict
\* for a destination that is a dangling symlink
C16_Witness ==
    \E q1, q2 \in Probes :
        /\ q1.status = UnDeployed
        /\ dst[q1.to] = Absent
        /\ dst[q2.to] = Link(Gone)
        /\ q2.status.tag = "Conflict"

(***************************************************************************)
(* C17 (fails on the code).  A call of the classifier returns Conflict      *)
(* exactly when source and destination are both present and the             *)
(* destination is not a symlink to the source; the cause is "Other file     *)
(* exists." for a file or directory and "Symlink to different path." with   *)
(* the absolutized target for a symlink.                                    *)
(***************************************************************************)
C17_ConflictIffPresentAndNotLinked ==
    \A q \in Probes :
        /\ q.status.tag = "Conflict"
           <=> ( /\ SrcExists(q.from)
                 /\ dst[q.to].kind # "absent"
                 /\ ~IsLinkTo(dst, q.from, q.to) )
        /\ q.status.tag = "Conflict"
           => IF dst[q.to].kind \in {"file", "dir"}
              THEN q.status.cause.text = "Other file exists."
              ELSE /\ q.status.cause.text = "Symlink to different path."
                   /\ q.status.cause.path = absolutize(dst[q.to].target).path

(***************************************************************************)
(* C18 (fails on the code).  Every call of the classifier returns one of    *)
(* UnDeployed, Deployed, Conflict and UnManaged and never aborts; the       *)
(* destinations are what they were, and classifying the same paths again    *)
(* gives the same value.                                                    *)
(***************************************************************************)
C18_ClassifierTotalAndDeterministic ==
    /\ result # "panic"
    /\ dst = dst0
    /\ \A q \in Probes :
          /\ q.status.tag \in {"UnDeployed", "Deployed", "Conflict", "UnManaged"}
          /\ get_status(dst, q.from, q.to) = q.status

(***************************************************************************)
(* C19.  Two values the classifier returned are equal exactly when they     *)
(* are the same variant, whatever the causes of two Conflict values, and    *)
(* they feed the same integer to the hasher exactly when they are equal.    *)
(***************************************************************************)
C19_EqualityAndHashByVariant ==
    \A i, j \in 1..Len(plan) :
        /\ eq(plan[i].status, plan[j].status) <=> plan[i].status.tag = plan[j].status.tag
        /\ reported[i].hash = reported[j].hash <=> eq(plan[i].status, plan[j].status)
        /\ reported[i].hash = hash(plan[i].status)

\* two Conflict values with different causes were returned and are equal
C19_Witness ==
    \E i, j \in 1..Len(plan) :
        /\ plan[i].status.tag = "Conflict"
        /\ plan[j].status.tag = "Conflict"
        /\ plan[i].status.cause # plan[j].status.cause
        /\ eq(plan[i].status, plan[j].status)
        /\ reported[i].hash = reported[j].hash

(***************************************************************************)
(* More vocabulary of the properties                                       *)
(***************************************************************************)
\* path p lies under the directory q
Under(p, q) ==
    /\ p.abs = q.abs
    /\ Len(p.comps) > Len(q.comps)
    /\ SubSeq(p.comps, 1, Len(q.comps)) = q.comps

\* the last git invocation of a run
LastSync(ss) == ss[Len(ss)]

(***************************************************************************)
(* C21.  Update runs git for <dotfiles-root>/<repository-name>: a pull     *)
(* inside that path when it exists, a clone of the repository url into it  *)
(* when it does not.  The entries of the repository are classified and     *)
(* acted on only after that invocation has succeeded, and their sources    *)
(* lie under that same path.                                               *)
(***************************************************************************)
C21_Step ==
    /\ pc = "sync" =>
         LET s == LastSync(syncs') IN
         /\ Len(syncs') = Len(syncs) + 1
         /\ s.repo = cur
         /\ s.dest = Join(cfg.root, cur)
         /\ src[cur].exists => s.how = "pull"
         /\ ~src[cur].exists => s.how = "clone" /\ s.url = UrlOf(cur)
         /\ pc' \in {"classify", "apply"} => s.ok
    /\ (cmd'.op = "update" /\ pc' \in {"classify", "apply"}) =>
         /\ syncs' # <<>>
         /\ LastSync(syncs').repo = cur'
         /\ LastSync(syncs').ok
         /\ \A i \in 1..Len(plan') : Under(plan'[i].from, LastSync(syncs').dest)

C21_UpdateSyncsThenDeploys == [][C21_Step]_vars

\* an update of both repositories cloned the first, pulled the second and
\* made a link
C21_Witness ==
    /\ RunEnded
    /\ cmd.op = "update"
    /\ Len(syncs) = 2
    /\ syncs[1].how = "clone" /\ syncs[1].ok
    /\ syncs[2].how = "pull" /\ syncs[2].ok
    /\ \E p \in DestPaths : dst[p].kind = "symlink" /\ dst0[p].kind # "symlink"

(***************************************************************************)
(* C22 (fails on the code).  An update without force of one repository     *)
(* whose destinations all exist as regular files, with git succeeding and  *)
(* no outside failure, exits with status 0, logs "Failed to deploy" for at *)
(* least one of the entries, leaves no destination a symlink, and leaves   *)
(* every destination classified Conflict.                                  *)
(***************************************************************************)
C22_UpdateOverFilesExitsSuccess ==
    ( /\ RunEnded
      /\ cmd.op = "update"
      /\ ~cmd.force
      /\ cmd.sel \in RepoSet
      /\ cfg.root # NoPath
      /\ ~faulted
      /\ syncs # <<>>
      /\ \A i \in 1..Len(syncs) : syncs[i].ok
      /\ Enumerated(cmd.sel) # {}
      /\ \A e \in Enumerated(cmd.sel) : dst0[e.to] = File )
    => /\ ExitStatus(result) = 0
       /\ \E i \in 1..Len(errors) :
            /\ errors[i].ctx = "Failed to deploy"
            /\ \E e \in Enumerated(cmd.sel) : errors[i].from = e.from /\ errors[i].to = e.to
       /\ \A e \in Enumerated(cmd.sel) :
            /\ dst[e.to].kind # "symlink"
            /\ get_status(dst, e.from, e.to).tag = "Conflict"

(***************************************************************************)
(* C23 (as stated, fails on the code).  A Deploy run in which an entry or  *)
(* a repository failed exits with a status other than 0.                   *)
(***************************************************************************)
C23_Original ==
    (RunEnded /\ cmd.op = "deploy" /\ errors # <<>> /\ result # "panic")
    => ExitStatus(result) # 0

(***************************************************************************)
(* C23 (amended).  A Deploy run that does not panic returns Ok to main and *)
(* exits with status 0 whether or not entries failed; a failure shows only *)
(* in the error log.                                                       *)
(***************************************************************************)
C23_DeployFailureIsLoggedOnly ==
    (RunEnded /\ cmd.op = "deploy" /\ result # "panic")
    => result = "ok" /\ ExitStatus(result) = 0

\* a Deploy run logged a failed entry and returned Ok
C23_Witness ==
    /\ RunEnded
    /\ cmd.op = "deploy"
    /\ \E i \in 1..Len(errors) : errors[i].ctx = "Failed to deploy"
    /\ ExitStatus(result) = 0

(***************************************************************************)
(* C27.  A run given a repository name enters only that repository, once:  *)
(* git runs only for it, only its entries are classified, the dotfiles     *)
(* tree of every other repository and every destination that is not one of *)
(* its entries stay as they are.  A run given no name that returns Ok has   *)
(* entered every configured repository once.                               *)
(***************************************************************************)
C27_Step ==
    /\ (pc # "idle" /\ cmd.sel \in RepoSet) =>
         /\ cur' \in {cur, cmd.sel}
         /\ \A r \in RepoSet \ {cmd.sel} : src'[r] = src[r] /\ attempts'[r] = 0
         /\ \A p \in DestPaths :
              p \notin {e.to : e \in Enumerated(cmd.sel)} => dst'[p] = dst[p]
         /\ \A i \in 1..Len(syncs') : syncs'[i].repo = cmd.sel
         /\ \A i \in 1..Len(plan') : Under(plan'[i].from, Join(cfg.root, cmd.sel))
         /\ (pc' = "idle" /\ result' # "panic") => attempts'[cmd.sel] = 1
    /\ (pc # "idle" /\ pc' = "idle" /\ cmd.sel = "*" /\ result' = "ok") =>
         \A r \in RepoSet : attempts'[r] = 1

C27_NameSelectsOneRepository == [][C27_Step]_vars

\* a Deploy of r1 alone made a link for r1 while r2's entry, which is not
\* deployed, was left alone
C27_Witness ==
    /\ RunEnded
    /\ cmd.op = "deploy"
    /\ cmd.sel = "r1"
    /\ attempts = [r \in RepoSet |-> IF r = "r1" THEN 1 ELSE 0]
    /\ \E e \in Enumerated("r1") : dst[e.to].kind = "symlink" /\ dst0[e.to].kind # "symlink"
    /\ \E e \in Enumerated("r2") : dst[e.to] = Absent

(***************************************************************************)
(* C28.  When the entries of a repository are resolved for deploy,         *)
(* undeploy or update, a mapping whose source directory does not exist and *)
(* a mapping whose destination does not resolve are left out without any   *)
(* error; the entries of every other mapping are classified and queued,    *)
(* and a Deploy that ends without a failure has made each of them a        *)
(* symlink.                                                                *)
(***************************************************************************)
\* the mappings of r whose source directory exists and whose destination resolves
Resolvable(r) ==
    LET dep == DeployOf(r, cfg.cfgDest) IN
    {m \in {dep[i] : i \in 1..Len(dep)} : m.dir \in src[r].dirs /\ m.dest # "?"}

\* the entries of those mappings
ResolvableEntries(r) ==
    {[from |-> Join(Join(Join(cfg.root, r), x[1].dir), x[2]), to |-> <<x[1].dest, x[2]>>] :
        x \in {y \in Resolvable(r) \X Names : y[2] \in ReadDir(r, y[1].dir)}}

C28_Step ==
    /\ (pc = "classify" /\ ~PrintsOnly(cmd.op) /\ faults' = faults /\ result' # "panic") =>
         /\ errors' = errors
         /\ {[from |-> plan'[i].from, to |-> plan'[i].to] : i \in 1..Len(plan')}
              = ResolvableEntries(cur)
         /\ plan' # <<>> => pc' = "apply"
    /\ (pc # "idle" /\ pc' = "idle" /\ cmd.op = "deploy" /\ result' = "ok"
        /\ errors' = <<>> /\ cfg.root # NoPath) =>
         \A r \in Selected : \A e \in ResolvableEntries(r) : dst'[e.to].kind = "symlink"

C28_SkippedMappingAffectsOnlyItself == [][C28_Step]_vars

\* a Deploy of both repositories, r1 with a destination that does not
\* resolve and r2 without its config directory, linked the entries of the
\* other mappings and logged nothing
C28_Witness ==
    /\ RunEnded
    /\ cmd.op = "deploy"
    /\ cmd.sel = "*"
    /\ cfg.cfgDest = "?"
    /\ "config" \in src["r1"].dirs
    /\ "config" \notin src["r2"].dirs
    /\ errors = <<>>
    /\ \A p \in {<<"H", "a">>, <<"H", "b">>, <<"H", "c">>} :
         dst[p].kind = "symlink" /\ dst0[p].kind # "symlink"

(***************************************************************************)
(* C29.  Repositories are processed one after the other in configuration   *)
(* order: the current repository changes only between closures and only to *)
(* a later one, git runs and destinations change only for the current      *)
(* repository.  Within a repository the classified entries are grouped by  *)
(* mapping in the configuration order of the mappings and are acted on in  *)
(* that order, one at a time.                                              *)
(***************************************************************************)
\* position in Repository.deploy of the mapping that entry e of r belongs to
MappingPos(r, e) ==
    LET dep == DeployOf(r, cfg.cfgDest) IN
    CHOOSE i \in 1..Len(dep) : dep[i].dir = e.from.comps[Len(e.from.comps) - 1]

C29_Step ==
    /\ (cur' # cur /\ cur' # "") => pc = "repo"
    /\ (cur' # cur /\ cur' # "" /\ cur # "") => PosOf(cur') > PosOf(cur)
    /\ \A i, j \in 1..Len(plan') :
         i < j => MappingPos(cur', plan'[i]) <= MappingPos(cur', plan'[j])
    /\ syncs' # syncs /\ syncs' # <<>> => LastSync(syncs').repo = cur
    /\ dst' # dst =>
         /\ pc = "apply"
         /\ Under(plan[idx].from, Join(cfg.root, cur))
         /\ \A p \in DestPaths : dst'[p] # dst[p] => p = plan[idx].to
    /\ (pc = "apply" /\ idx' # idx) => idx' = idx + 1

C29_ConfigurationOrder == [][C29_Step]_vars

\* one Deploy linked an entry of each mapping of r1 and the entry of r2
C29_Witness ==
    /\ RunEnded
    /\ cmd.op = "deploy"
    /\ cmd.sel = "*"
    /\ cfg.cfgDest = "C"
    /\ \A p \in {<<"H", "a">>, <<"C", "a">>, <<"H", "c">>} :
         dst[p].kind = "symlink" /\ dst0[p].kind # "symlink"

(***************************************************************************)
(* Vocabulary of the properties of path resolution                         *)
(***************************************************************************)
\* the template of the Linux variant
Template == cfg.dotfiles.linux.s

\* the program is the Linux build
OnLinux == env.os = "linux"

RefHome == <<"$", "{", "H", "}">>
RefXdg == <<"$", "{", "X", "}">>

\* s holds no "$"
Plain(s) == \A i \in 1..Len(s) : s[i] # "$"
\* s holds no "${"
NoStart(s) == \A i \in 1..(Len(s) - 1) : ~(s[i] = "$" /\ s[i + 1] = "{")
\* s holds no "}"
NoClose(s) == \A i \in 1..Len(s) : s[i] # "}"

C25_Original ==
    \A i, j \in 1..Len(calls) :
        ( /\ OnLinux
          /\ cfg.dotfiles.linux = Some(RefXdg)
          /\ calls[i].env.H = calls[j].env.H )
        => calls[i].res = calls[j].res

(***************************************************************************)
(* C25 (amended).  Resolving "${XDG_CONFIG_HOME}" never fails for want of  *)
(* the variable: it returns the value of the variable XDG_CONFIG_HOME when *)
(* that is set to an absolute path and <home>/.config otherwise, so two    *)
(* environments that differ only in that variable give the same path when  *)
(* neither sets it to an absolute path.                                    *)
(***************************************************************************)
C25_AliasUsesVariableElseDefault ==
    \A i \in 1..Len(calls) :
        LET e == calls[i].env
            r == calls[i].res
        IN (OnLinux /\ cfg.dotfiles.linux = Some(RefXdg)) =>
             /\ r.ok
             /\ (e.X.some /\ is_absolute(e.X.s)) => r.value = e.X.s
             /\ ~(e.X.some /\ is_absolute(e.X.s)) => r.value = home_dir(e) \o <<"/", "c">>
             /\ \A j \in 1..Len(calls) :
                  ( /\ calls[j].env.H = e.H
                    /\ ~(e.X.some /\ is_absolute(e.X.s))
                    /\ ~(calls[j].env.X.some /\ is_absolute(calls[j].env.X.s)) )
                  => calls[j].res = r

\* "${XDG_CONFIG_HOME}" was resolved with the variable not set and again
\* with the variable set to a relative path
C25_Witness ==
    /\ cfg.dotfiles.linux = Some(RefXdg)
    /\ Len(calls) = 2
    /\ calls[1].env.X = None
    /\ calls[2].env.X = Some(XdgRelative)
    /\ calls[1].env.H = calls[2].env.H
    /\ calls[1].res.ok

(***************************************************************************)
(* C26 (fails on the code).  OsPath::to_pathbuf fails with "Linux Path not *)
(* defined." when the Linux variant is absent or empty; otherwise it       *)
(* returns the expansion of the Linux variant in the environment of the    *)
(* call, whatever the other two variants are.                              *)
(***************************************************************************)
C26_OsPathUsesRunningOsVariant ==
    \A i \in 1..Len(calls) :
        LET l == cfg.dotfiles.linux
            r == calls[i].res
        IN OnLinux =>
             /\ (~l.some \/ l.s = <<>>) => ~r.ok /\ r.err = "Linux Path not defined."
             /\ (l.some /\ l.s # <<>>) => r = expand_env_var(l.s, calls[i].env)

(***************************************************************************)
(* C30 (fails on the code).  When every "${" of a template, read from left *)
(* to right, opens a reference with a name that has a value, the result is *)
(* the template with each reference replaced by the value of its name and  *)
(* every other character copied, a "$" that "{" does not follow included.   *)
(***************************************************************************)
\* the value a reference to name stands for in e
ValueOf(name, e) ==
    IF name = <<"X">> THEN Some(config_dir(e)) ELSE EnvVar(e, name)

RECURSIVE Substituted(_, _)
\* the template t with its references replaced, read one character at a
\* time; not ok when a "${" opens no reference with a value
Substituted(t, e) ==
    IF t = <<>> THEN [ok |-> TRUE, value |-> <<>>]
    ELSE IF Len(t) >= 2 /\ t[1] = "$" /\ t[2] = "{"
    THEN LET rest == SubSeq(t, 3, Len(t)) IN
         IF NoClose(rest) THEN [ok |-> FALSE, value |-> <<>>]
         ELSE LET k == CHOOSE n \in 1..Len(rest) : rest[n] = "}" /\ NoClose(SubSeq(rest, 1, n - 1))
                  name == SubSeq(rest, 1, k - 1)
                  tail == Substituted(SubSeq(rest, k + 1, Len(rest)), e)
              IN IF name = <<>> \/ ~ValueOf(name, e).some \/ ~tail.ok
                 THEN [ok |-> FALSE, value |-> <<>>]
                 ELSE [ok |-> TRUE, value |-> ValueOf(name, e).s \o tail.value]
    ELSE LET tail == Substituted(Tail(t), e) IN
         [ok |-> tail.ok, value |-> <<Head(t)>> \o tail.value]

C30_EveryReferenceSubstituted ==
    \A i \in 1..Len(calls) :
        (OnLinux /\ cfg.dotfiles.linux.some /\ Substituted(Template, calls[i].env).ok)
        => /\ calls[i].res.ok
           /\ calls[i].res.value = Substituted(Template, calls[i].env).value

(***************************************************************************)
(* More vocabulary of the properties of path resolution                    *)
(***************************************************************************)
\* the template of the Windows variant
WinTemplate == cfg.dotfiles.windows.s
OnWindows == env.os = "windows"

\* s holds no "%"
NoPercent(s) == \A i \in 1..Len(s) : s[i] # "%"

\* no variable of the name is set in e
Unset(name, e) ==
    /\ name = <<"H">> => ~e.H.some
    /\ name = <<"X">> => ~e.X.some
    /\ name = <<"R">> => ~e.R.some

(***************************************************************************)
(* C31 (as stated, fails on the code).  A template that ends with the      *)
(* start delimiter, "$" on Unix after text without "${" and "%" on Windows *)
(* after text without "%", is returned unchanged.                          *)
(***************************************************************************)
C31_Original ==
    \A i \in 1..Len(calls) :
        /\ ( /\ OnLinux
             /\ cfg.dotfiles.linux.some
             /\ Template # <<>>
             /\ Template[Len(Template)] = "$"
             /\ NoStart(Template) )
           => calls[i].res = OkString(Template)
        /\ ( /\ OnWindows
             /\ cfg.dotfiles.windows.some
             /\ WinTemplate # <<>>
             /\ WinTemplate[Len(WinTemplate)] = "%"
             /\ NoPercent(SubSeq(WinTemplate, 1, Len(WinTemplate) - 1)) )
           => calls[i].res = OkString(WinTemplate)

(***************************************************************************)
(* C31 (amended).  On Unix a template without "${" that ends with "$" is   *)
(* returned unchanged.  On Windows a "%" that ends the template after text *)
(* without "%" opens a reference that nothing ends: expansion fails with   *)
(* "invalid environment variable: <template>".                             *)
(***************************************************************************)
C31_TrailingDelimiter ==
    \A i \in 1..Len(calls) :
        /\ ( /\ OnLinux
             /\ cfg.dotfiles.linux.some
             /\ Template # <<>>
             /\ Template[Len(Template)] = "$"
             /\ NoStart(Template) )
           => calls[i].res = OkString(Template)
        /\ ( /\ OnWindows
             /\ cfg.dotfiles.windows.some
             /\ WinTemplate # <<>>
             /\ WinTemplate[Len(WinTemplate)] = "%"
             /\ NoPercent(SubSeq(WinTemplate, 1, Len(WinTemplate) - 1)) )
           => calls[i].res = Bail("invalid environment variable", WinTemplate)

\* "H%" was resolved on Windows and failed
C31_Witness ==
    /\ OnWindows
    /\ Len(calls) = 1
    /\ cfg.dotfiles.windows = Some(<<"H", "%">>)
    /\ ~calls[1].res.ok
    /\ calls[1].res.name = <<"H", "%">>

UndefinedFailsFastUnix ==
    \A i \in 1..Len(calls) :
        (OnLinux /\ cfg.dotfiles.linux.some) =>
          /\ ~calls[i].res.ok => calls[i].res.value = <<>>
          /\ \A k \in 0..Len(Template), n \in 1..Len(Template) :
               LET p == SubSeq(Template, 1, k)
                   q == SubSeq(Template, k + 1, Len(Template))
                   name == SubSeq(q, 3, n + 1)
               IN ( /\ Plain(p)
                    /\ Len(q) >= n + 2
                    /\ q[1] = "$" /\ q[2] = "{" /\ q[n + 2] = "}"
                    /\ name # <<>>
                    /\ NoClose(name)
                    /\ ~is_xdg_base_directory(name)
                    /\ Unset(name, calls[i].env) )
                  => calls[i].res = Bail("env var not found", name)

\* the same of the Windows expander: text without "%", then a reference
\* whose name is not empty, no known folder and no variable that is set
UndefinedFailsFastWindows ==
    \A i \in 1..Len(calls) :
        (OnWindows /\ cfg.dotfiles.windows.some) =>
          /\ ~calls[i].res.ok => calls[i].res.value = <<>>
          /\ \A k \in 0..Len(WinTemplate), n \in 1..Len(WinTemplate) :
               LET p == SubSeq(WinTemplate, 1, k)
                   q == SubSeq(WinTemplate, k + 1, Len(WinTemplate))
                   name == SubSeq(q, 2, n + 1)
               IN ( /\ NoPercent(p)
                    /\ Len(q) >= n + 2
                    /\ q[1] = "%" /\ q[n + 2] = "%"
                    /\ NoPercent(name)
                    /\ ~is_known_folder_id(name)
                    /\ Unset(name, calls[i].env) )
                  => calls[i].res = Bail("env var not found", name)

(***************************************************************************)
(* C33.  When text without a start delimiter is followed by a reference    *)
(* whose name is not empty, no alias and no variable that is set,          *)
(* expansion fails with "env var <name> not found" for that name, whatever *)
(* follows the reference; a failed expansion returns no string.            *)
(***************************************************************************)
C33_UndefinedVariableFailsFast ==
    /\ UndefinedFailsFastUnix
    /\ UndefinedFailsFastWindows

\* "${{}${" failed for the variable "{" and not for the reference that
\* nothing ends
C33_Witness ==
    /\ OnLinux
    /\ Len(calls) = 1
    /\ cfg.dotfiles.linux = Some(<<"$", "{", "{", "}", "$", "{">>)
    /\ calls[1].res = Bail("env var not found", <<"{">>)

(***************************************************************************)
(* C34 (fails on the code).  When the platform has no directory for an     *)
(* alias, resolving a reference to it returns an error and the process     *)
(* goes on.                                                                *)
(***************************************************************************)
C34_UnsupportedAliasIsAnError ==
    \A i \in 1..Len(calls) :
        ( /\ calls[i].env.os = "macos"
          /\ cfg.dotfiles.mac = Some(Ref(<<"S">>)) )
        => /\ ~calls[i].res.ok
           /\ calls[i].res # Panicked
           /\ result # "panic"

(***************************************************************************)
(* C40.  The value of a variable is inserted as it is: when the template   *)
(* is one reference to a variable that is set, the result is the value of  *)
(* the variable, also when the value holds a delimiter, a reference or a   *)
(* reference that nothing ends.                                            *)
(***************************************************************************)
C40_ValuesAreNotRescanned ==
    \A i \in 1..Len(calls) :
        LET e == calls[i].env IN
        /\ (e.os # "windows" /\ e.H.some
            /\ (IF e.os = "macos" THEN cfg.dotfiles.mac ELSE cfg.dotfiles.linux)
                 = Some(Ref(<<"H">>)))
           => calls[i].res = OkString(e.H.s)
        /\ (e.os = "windows" /\ e.H.some /\ cfg.dotfiles.windows = Some(<<"%", "H", "%">>))
           => calls[i].res = OkString(e.H.s)

\* "${HOME}" was resolved while HOME held "${H}" and again while it held "/${"
C40_Witness ==
    /\ OnLinux
    /\ cfg.dotfiles.linux = Some(Ref(<<"H">>))
    /\ Len(calls) = 2
    /\ calls[1].env.H = Some(HomeReference)
    /\ calls[1].res = OkString(HomeReference)
    /\ calls[2].env.H = Some(HomeOpen)
    /\ calls[2].res = OkString(HomeOpen)

(***************************************************************************)
(* More vocabulary of the properties of the reconciler                     *)
(***************************************************************************)
\* the errors logged for the repository the run is at
ErrorsOfCur == {errors[i] : i \in {j \in 1..Len(errors) : errors[j].repo = cur}}

\* the class the entry of an error had when its repository was classified
SeenTag(err) == get_status(seen, err.from, err.to).tag

(***************************************************************************)
(* C35 (fails on the code).  The removal a forced deploy is about to make  *)
(* succeeds and leaves nothing at the path when the trash cannot be used   *)
(* on the filesystem, whether a file, a symlink or a directory is there.   *)
(***************************************************************************)
C35_RemoveFallsBackToDeletion ==
    ( /\ pc = "apply"
      /\ idx <= Len(plan)
      /\ cmd.op \in {"deploy", "update"}
      /\ cmd.force
      /\ plan[idx].status.tag = "Conflict" )
    => LET rm == remove(dst, plan[idx].to, "trash_fs")
       IN rm.ok /\ rm.dst[plan[idx].to] = Absent

(***************************************************************************)
(* C36.  Within one deploy or undeploy of a repository every entry is      *)
(* classified before anything is changed, and each action is chosen from   *)
(* that classification: while the entries are acted on, the class of each  *)
(* is the one it had in the destinations as they were at classification;   *)
(* an error of an entry belongs to the arm of that class; and when reading *)
(* a source entry fails, the destinations are as they were and no entry is *)
(* acted on.                                                               *)
(***************************************************************************)
C36_ClassifiedBeforeMutation ==
    /\ pc = "apply" =>
         \A i \in 1..Len(plan) :
             plan[i].status = get_status(seen, plan[i].from, plan[i].to)
    /\ \A err \in ErrorsOfCur :
         /\ err.ctx = "Failed to deploy" => SeenTag(err) = "Conflict"
         /\ err.ctx = "File not exists" => SeenTag(err) = "UnManaged"
         /\ err.ctx = "Failed to create symlink" =>
              \/ SeenTag(err) = "UnDeployed"
              \/ SeenTag(err) = "Conflict" /\ cmd.force
         /\ err.ctx = "Failed to remove file" =>
              \/ SeenTag(err) = "Conflict" /\ cmd.force
              \/ SeenTag(err) = "Deployed" /\ cmd.op = "undeploy"
         /\ err.ctx = "Failed to read deploy source directory entry" =>
              dst = seen /\ plan = <<>>

\* two mappings of r1 resolve to the same destination: both entries named a
\* were classified UnDeployed, the first was linked, and the second failed at
\* the symlink call without any outside failure
C36_Witness ==
    /\ RunEnded
    /\ cmd.op = "deploy"
    /\ ~cmd.force
    /\ faults = 0
    /\ cfg.cfgDest = "H"
    /\ seen[<<"H", "a">>] = Absent
    /\ dst[<<"H", "a">>] = Link(Join(Join(Join(cfg.root, "r1"), "home"), "a"))
    /\ \E err \in ErrorsOfCur :
         /\ err.ctx = "Failed to create symlink"
         /\ err.to = <<"H", "a">>
         /\ err.from = Join(Join(Join(cfg.root, "r1"), "config"), "a")

\* destination p has a same-named entry in a source directory that a mapping
\* of a selected repository sends to the directory of p
SourceNamed(p) ==
    \E r \in Selected :
        \E i \in 1..Len(DeployOf(r, cfg.cfgDest)), x \in src[r].entries :
            /\ DeployOf(r, cfg.cfgDest)[i].dest = p[1]
            /\ DeployOf(r, cfg.cfgDest)[i].dir = x.dir
            /\ x.name = p[2]

\* `from` is a dangling symlink in a source directory of repository r
DanglingSource(r, from) ==
    \E x \in src[r].entries :
        /\ x.kind = "dangling"
        /\ from = Join(Join(Join(cfg.root, r), x.dir), x.name)

(***************************************************************************)
(* C37.  A destination without a same-named source entry in a mapping of a *)
(* selected repository is as it was when the run started and appears in no *)
(* classified entry, no printed line and no error; and an entry is         *)
(* UnManaged, or fails with "File not exists", only when its source entry  *)
(* is a dangling symlink.                                                  *)
(***************************************************************************)
C37_OnlySourceEntriesEnumerated ==
    /\ \A p \in DestPaths :
         ~SourceNamed(p) =>
           /\ dst[p] = dst0[p]
           /\ \A i \in 1..Len(plan) : plan[i].to # p
           /\ \A i \in 1..Len(reported) : reported[i].to # p
           /\ \A i \in 1..Len(errors) : errors[i].to # p
    /\ \A i \in 1..Len(plan) :
         plan[i].status.tag = "UnManaged" => DanglingSource(cur, plan[i].from)
    /\ \A i \in 1..Len(errors) :
         errors[i].ctx = "File not exists" => DanglingSource(errors[i].repo, errors[i].from)

\* a forced deploy of r1 replaced the file at H/a while the file at H/c,
\* which has no source entry in r1, is still there
C37_Witness ==
    /\ RunEnded
    /\ cmd.op = "deploy"
    /\ cmd.sel = "r1"
    /\ cmd.force
    /\ dst0[<<"H", "a">>] = File
    /\ dst[<<"H", "a">>].kind = "symlink"
    /\ ~SourceNamed(<<"H", "c">>)
    /\ dst[<<"H", "c">>] = File

\* the error the step logs, when it logs one
NewError == errors'[Len(errors')]

(***************************************************************************)
(* C38.  A forced deploy acting on a Conflict entry removes `to` and then  *)
(* creates the symlink.  When the step logs no error, `to` is the symlink  *)
(* to `from`.  When it logs an error, the error is of the entry and is one *)
(* of two: "Failed to remove file", and the destinations are as before the *)
(* step; or "Failed to create symlink", and `to`, which held something     *)
(* before the step, is absent, no line is printed and no other destination *)
(* has changed.                                                            *)
(***************************************************************************)
C38_Step ==
    ( /\ pc = "apply"
      /\ idx <= Len(plan)
      /\ cmd.op \in {"deploy", "update"}
      /\ cmd.force
      /\ plan[idx].status.tag = "Conflict" )
    => LET e == plan[idx] IN
       IF Len(errors') = Len(errors)
       THEN dst' = [dst EXCEPT ![e.to] = Link(e.from)]
       ELSE /\ NewError.from = e.from
            /\ NewError.to = e.to
            /\ reported' = reported
            /\ \/ /\ NewError.ctx = "Failed to remove file"
                  /\ dst' = dst
               \/ /\ NewError.ctx = "Failed to create symlink"
                  /\ dst[e.to] # Absent
                  /\ dst' = [dst EXCEPT ![e.to] = Absent]

C38_ForcedReplaceIsRemoveThenLink == [][C38_Step]_vars

\* a forced deploy removed the file at H/a and then failed to create the
\* symlink: H/a is absent
C38_Witness ==
    /\ RunEnded
    /\ cmd.op = "deploy"
    /\ cmd.force
    /\ dst0[<<"H", "a">>] = File
    /\ dst[<<"H", "a">>] = Absent
    /\ \E err \in ErrorsOfCur :
         /\ err.ctx = "Failed to create symlink"
         /\ err.to = <<"H", "a">>
         /\ SeenTag(err) = "Conflict"

(***************************************************************************)
(* C39.  Every step that puts a symlink at a destination puts it at        *)
(* <destination-dir>/<name> of a mapping of the repository the run is at,  *)
(* and the symlink stores <root>/<repo>/<dirname>/<name> of the source     *)
(* entry with the same name; and only the synchronizer changes the         *)
(* dotfiles tree.                                                          *)
(***************************************************************************)
C39_Step ==
    /\ pc # "sync" => src' = src
    /\ \A p \in DestPaths :
         (dst'[p] # dst[p] /\ dst'[p].kind = "symlink") =>
           \E i \in 1..Len(DeployOf(cur, cfg.cfgDest)), x \in src[cur].entries :
               /\ DeployOf(cur, cfg.cfgDest)[i].dest = p[1]
               /\ DeployOf(cur, cfg.cfgDest)[i].dir = x.dir
               /\ x.name = p[2]
               /\ dst'[p].target = Join(Join(Join(cfg.root, cur), x.dir), x.name)

C39_LinksAreOfMappings == [][C39_Step]_vars

\* after a deploy and the next run, H/a and H/c are symlinks the tool made
C39_Witness ==
    /\ RunEnded
    /\ Len(hist) >= 2
    /\ hist[1].op = "deploy"
    /\ dst[<<"H", "a">>] = Link(Join(Join(Join(cfg.root, "r1"), "home"), "a"))
    /\ dst[<<"H", "c">>] = Link(Join(Join(Join(cfg.root, "r2"), "home"), "c"))

====
